---- MODULE Spec2Model ----
(***************************************************************************)
(* Concurrency core of the logging subsystem.                              *)
(*                                                                         *)
(* Part 1: LogManager, the singleton registry.  The repository holds the   *)
(* module the package imports (src/src/logs/singleton/log_manager.py,      *)
(* "live" below) and its copy-on-write rewrite (src/log_manager_final_fix  *)
(* .py, "fix" below).  Both are modelled; impl says which one is installed.*)
(* Part 2: the lazily created guard locks of AbstractLogger.               *)
(* Part 3: AsyncLogHandler, the bounded queue with its two threads.        *)
(***************************************************************************)
EXTENDS Integers, Sequences, FiniteSets, TLC

\* ------------------------------------------------------------------ bounds
\* Total number of LogManager calls the client threads make in one run.
MaxCalls == 4

\* Client threads of the LogManager, logger names and configurations.
Threads == {1, 2}
Names == {"a", "b"}
Configs == {1, 2}
Root == "root"
None == 0

Locks == {"_initialization_lock", "_loggers_lock", "_config_lock"}

VARIABLES
    impl,           \* "live" or "fix": which LogManager module is installed
    initialized,    \* LogManager._initialized
    root_logger,    \* LogManager._root_logger / _root_logger_ref (None or a logger id)
    loggers,        \* LogManager._loggers / _loggers_immutable: name -> logger id or None
    config,         \* LogManager._config / _config_ref
    factory,        \* LogManager._factory
    lockOwner,      \* for each LogManager lock, the thread holding it (None: free)
    lg,             \* every Logger built by the factory, by id: [name, cfg, shut]
    cache,          \* fix: _thread_local.logger_cache of each thread
    pc,             \* position of each client thread inside its current call
    op,             \* the call each thread is making: [kind, name, cfg]
    iter,           \* loggers a thread still has to visit in its for-loop
    tmp,            \* a thread's local variable holding one logger
    snap,           \* fix: a thread's new_loggers, the map it is about to publish
    ret,            \* what the thread's last call returned or raised
    calls,          \* calls left to start
    bg,             \* fix: the background fan-out threads, each [cfg, todo]
    hist,           \* history: counters and flags the claims speak about
    \* -- AbstractLogger: the lazily created _observers_lock
    observers_lock, \* AbstractLogger._observers_lock: None or a lock object
    obsLocks,       \* every Lock object created for it: its holder (None: free)
    observers,      \* AbstractLogger._observers
    lpc,            \* position of each thread inside its AbstractLogger call
    lop,            \* the call it is making: [kind, o]
    lmy,            \* the lock object its with-statement evaluated
    lcalls,         \* calls left to start
    lidx,           \* log(): how many entries of _observers the thread's for-loop has passed
    lhist,          \* history: how the log() calls ended
    lframe,         \* the _notify_observers frame a thread's callback is running under
    calls_back,     \* the observers whose on_log_record calls add/remove_observer
    \* -- AsyncLogHandler
    queue,          \* _queue: the records waiting, oldest first
    stop_event,     \* _stop_event
    flush_event,    \* _flush_event
    error_handler,  \* the error_handler the constructor was given
    faulty,         \* the strategies whose output() raises on every record
    strategies_lock,\* holder of _strategies_lock ("free": nobody)
    handler_strategies, \* AsyncLogHandler._strategies
    thr,            \* _worker_thread and _flush_thread: each [pc, rec, todo]
    out,            \* for each strategy, the records output to it, in order
    caller,         \* the thread calling stop() and flush(): [pc]
    ahist,          \* history: counters the claims speak about
    \* -- ErrorHandlingManager and its CompositeErrorHandler
    eimpl,          \* which module: "live" or "fix"
    handlers,       \* CompositeErrorHandler.handlers: what each handler does
    max_recursion_depth, \* fix: _max_recursion_depth
    recursion_depth,\* fix: _recursion_depth
    error_count,    \* _error_count
    elocks,         \* holder of the manager's _lock and of the composite's _lock
    epc,            \* position of each thread inside its handle_error call
    etodo,          \* the handlers its loop has still to try
    eret,           \* how its last call ended: "none", "ok" or "raised"
    ewrites,        \* writes to stderr made by its current (or last) call
    ecalls,         \* calls left to start
    econsulted,     \* history: the handler methods its current (or last) call invoked
    \* -- LogManagerMeta: the class attributes and the threads evaluating LogManager()
    cls_instance,   \* LogManagerMeta._instance (None or an object id)
    cls_lock,       \* holder of LogManagerMeta._lock (None: nobody)
    objects,        \* LogManager objects created so far
    init_runs,      \* times the body of LogManager.__init__ has run
    mpc,            \* position of each thread inside LogManagerMeta.__call__
    mnew,           \* the object a thread's super().__call__ returned
    got,            \* what each thread's last LogManager() returned
    sawNone,        \* history: threads whose first test found no instance
    mcalls,         \* calls left to start
    \* -- one ObservableLogger and the output strategy objects of the configs
    logger_config,  \* ObservableLogger.config
    strategies,     \* ObservableLogger._strategies
    closed,         \* the strategy objects whose _closed is True
    emitted,        \* for each strategy object, the records it has output
    dropped,        \* records a strategy refused (RuntimeError, swallowed)
    last_call,      \* the logger's last finished call
    ocalls,         \* calls left to make
    \* -- one FallbackErrorHandler
    fimpl,          \* which module: "live" or "fix"
    fallback_strategy, \* FallbackErrorHandler.fallback_strategy
    fraising,       \* the fallback steps that raise when they are attempted
    fpc,            \* position of the thread inside handle_error
    fsteps,         \* history: the steps its current (or last) call attempted
    fret,           \* how its last call ended: "none", "ok" or "raised"
    fcalls,         \* calls left to make
    \* -- the ObservableLoggers one LogManager has built from its config
    gconfig,        \* LogManager._config, the config object every logger was given
    registry,       \* the loggers alive: "root" and the names in LogManager._loggers
    gclosed,        \* the strategy objects whose _closed is True
    gout,           \* for each logger, the strategy outputs its log() calls achieved
    glost,          \* for each logger, the outputs a closed strategy refused
    gcalls,         \* calls left to make
    \* -- one BatchProcessor
    batch,          \* BatchProcessor._batch
    batch_lock,     \* holder of BatchProcessor._lock ("none": nobody)
    batch_stop,     \* BatchProcessor._stop_event
    bpc,            \* position of each thread: the producers, the timer, the caller
    bop,            \* the caller's current call: "none", "flush" or "stop"
    bentry,         \* the entry each producer is adding
    blocal,         \* _process_batch_now: each thread's local copy, batch
    delivered,      \* history: for each entry, the batches given to the processor holding it
    badded,         \* entries passed to add_entry so far
    bcalls          \* flush() and stop() calls left to make

mgrVars == <<impl, initialized, root_logger, loggers, config, factory, lockOwner, lg, cache,
             pc, op, iter, tmp, snap, ret, calls, bg, hist>>

lazyVars == <<observers_lock, obsLocks, observers, lpc, lop, lmy, lcalls,
              lidx, lhist, lframe, calls_back>>

asyncVars == <<queue, stop_event, flush_event, error_handler, faulty, strategies_lock,
              handler_strategies,
               thr, out, caller, ahist>>

errVars == <<eimpl, handlers, max_recursion_depth, recursion_depth, error_count,
             elocks, epc, etodo, eret, ewrites, ecalls,
            econsulted>>

metaVars == <<cls_instance, cls_lock, objects, init_runs, mpc, mnew, got, sawNone,
              mcalls>>

olVars == <<logger_config, strategies, closed, emitted, dropped, last_call, ocalls>>

fbVars == <<fimpl, fallback_strategy, fraising, fpc, fsteps, fret, fcalls>>

groupVars == <<gconfig, registry, gclosed, gout, glost, gcalls>>

batchVars == <<batch, batch_lock, batch_stop, bpc, bop, bentry, blocal, delivered, badded,
               bcalls>>

vars == <<mgrVars, lazyVars, asyncVars, errVars, metaVars, olVars, fbVars, groupVars,
          batchVars>>

\* What the LogManager's steps leave alone.
outsideMgr == <<lazyVars, asyncVars, errVars, metaVars, olVars, fbVars, groupVars,
    batchVars>>

\* ----------------------------------------------------------------- helpers
Held(t) == {l \in Locks : lockOwner[l] = t}

Free(l) == lockOwner[l] = None

Acquire(l, t) == [lockOwner EXCEPT ![l] = t]

Release(ls) == [l \in Locks |-> IF l \in ls THEN None ELSE lockOwner[l]]

\* The values of a dict, in some order, as the list a for-loop walks.
RECURSIVE SeqOfSet(_)
SeqOfSet(S) == IF S = {} THEN <<>>
               ELSE LET x == CHOOSE y \in S : \A z \in S : y <= z
                    IN <<x>> \o SeqOfSet(S \ {x})

Values(m) == SeqOfSet({m[n] : n \in {k \in DOMAIN m : m[k] # None}})

\* factory.create_logger(name, cfg): a new Logger object.
NewLogger(name, cfg) == [name |-> name, cfg |-> cfg, shut |-> 0]

\* Logger.update_config(cfg) and Logger.shutdown() on logger id.
LoggerUpdateConfig(id, cfg) == [lg EXCEPT ![id].cfg = cfg]

LoggerShutdown(id) == [lg EXCEPT ![id].shut = @ + 1]

Goto(t, label) == pc' = [pc EXCEPT ![t] = label]

\* The call ends: it returns value, or raises the exception named by how.
Return(t, how, value) == /\ pc' = [pc EXCEPT ![t] = "idle"]
                         /\ ret' = [ret EXCEPT ![t] = [how |-> how, v |-> value]]

NoCall == [kind |-> "none", name |-> "", cfg |-> None]

CallsOf(kinds) ==
    {c \in [kind : kinds, name : Names \cup {Root, ""}, cfg : Configs \cup {None}] :
        /\ (c.kind \in {"get_logger", "remove_logger"}) = (c.name # "")
        /\ (c.kind = "remove_logger") => (c.name # Root)
        /\ (c.kind \in {"initialize", "update_config"}) = (c.cfg # None)}

FirstLabel(kind) ==
    CASE kind = "initialize" -> "init_chk"
      [] kind = "get_logger" -> "gl_chk"
      [] kind = "update_config" -> "uc_chk"
      [] kind = "remove_logger" -> "rl_chk"
      [] kind = "shutdown" -> "sd_chk"

\* No map copied yet.
NoSnap == [n \in Names |-> None]

\* ------------------------------------------------------------------- Init
\* The state LogManager.__init__ leaves, with module im installed.
MgrConstructed(im) ==
    /\ impl = im
    /\ initialized = FALSE
    /\ root_logger = None
    /\ loggers = [n \in Names |-> None]
    /\ config = None
    /\ factory = None
    /\ lockOwner = [l \in Locks |-> None]
    /\ lg = <<>>
    /\ cache = [t \in Threads |-> [n \in Names |-> None]]
    /\ pc = [t \in Threads |-> "idle"]
    /\ op = [t \in Threads |-> NoCall]
    /\ iter = [t \in Threads |-> <<>>]
    /\ tmp = [t \in Threads |-> None]
    /\ snap = [t \in Threads |-> NoSnap]
    /\ ret = [t \in Threads |-> [how |-> "none", v |-> None]]
    /\ calls = MaxCalls
    /\ bg = <<>>
    /\ hist = [rootBuilds |-> 0, initFlips |-> 0, shutdowns |-> 0,
               removed |-> {},
               sawPresent |-> [t \in Threads |-> None],
               tookLock |-> [t \in Threads |-> FALSE],
               atStart |-> [t \in Threads |-> {}],
               goneAtStart |-> [t \in Threads |-> {}]]

\* The loggers that have been shut down by remove_logger or shutdown calls
\* that have all returned: none of these calls is still running.
Gone ==
    IF \E u \in Threads : pc[u] # "idle" /\ op[u].kind \in {"remove_logger", "shutdown"}
    THEN {}
    ELSE {i \in DOMAIN lg : lg[i].shut >= 1}

\* A client thread starts a call of one of the kinds.
Begin(t, kinds) ==
    /\ pc[t] = "idle"
    /\ calls > 0
    /\ \E c \in CallsOf(kinds) :
        /\ op' = [op EXCEPT ![t] = c]
        /\ pc' = [pc EXCEPT ![t] = FirstLabel(c.kind)]
        /\ hist' = [hist EXCEPT
               !.shutdowns = IF c.kind = "shutdown" THEN @ + 1 ELSE @,
               !.sawPresent[t] = IF c.kind = "get_logger" /\ c.name \in Names
                                 THEN loggers[c.name] ELSE None,
               !.tookLock[t] = FALSE,
               !.atStart[t] = {loggers[n] : n \in Names} \cup {root_logger},
               !.goneAtStart[t] = IF c.kind = "get_logger" THEN Gone ELSE {}]
    /\ calls' = calls - 1
    /\ ret' = [ret EXCEPT ![t] = [how |-> "none", v |-> None]]
    /\ UNCHANGED <<impl, initialized, root_logger, loggers, config, factory, lockOwner, lg,
                   cache, iter, tmp, snap, bg>>
    /\ UNCHANGED outsideMgr

\* ---------------------------------------------------------------- "live"
\* LogManager of src/src/logs/singleton/log_manager.py.

\* initialize storing its arguments before it looks at the flag.
Live_initialize_check_eager(t) ==
    /\ impl = "live" /\ pc[t] = "init_chk"
    /\ config' = op[t].cfg
    /\ factory' = op[t].cfg
    /\ IF initialized THEN Return(t, "ok", None)
       ELSE Goto(t, "init_lock") /\ UNCHANGED ret
    /\ UNCHANGED <<impl, initialized, root_logger, loggers, lockOwner, lg,
                   cache, op, iter, tmp, snap, calls, bg, hist>>
    /\ UNCHANGED outsideMgr

\* initialize: the unlocked first check of _initialized.
Live_initialize_check(t) ==
    /\ impl = "live" /\ pc[t] = "init_chk"
    /\ IF initialized THEN Return(t, "ok", None)
       ELSE Goto(t, "init_lock") /\ UNCHANGED ret
    /\ UNCHANGED <<impl, initialized, root_logger, loggers, config, factory, lockOwner, lg,
                   cache, op, iter, tmp, snap, calls, bg, hist>>
    /\ UNCHANGED outsideMgr

\* initialize taking the initialization lock without looking at the flag again.
Live_initialize_lock_unchecked(t) ==
    /\ impl = "live" /\ pc[t] = "init_lock"
    /\ Free("_initialization_lock")
    /\ lockOwner' = Acquire("_initialization_lock", t)
    /\ config' = op[t].cfg
    /\ factory' = op[t].cfg
    /\ Goto(t, "init_build")
    /\ UNCHANGED <<impl, initialized, root_logger, loggers, lg,
                   cache, op, iter, tmp, snap, ret, calls, bg, hist>>
    /\ UNCHANGED outsideMgr

\* initialize: take _initialization_lock, check again, store the config.
Live_initialize_lock(t) ==
    /\ impl = "live" /\ pc[t] = "init_lock"
    /\ Free("_initialization_lock")
    /\ IF initialized
       THEN Return(t, "ok", None) /\ UNCHANGED <<lockOwner, config, factory>>
       ELSE /\ lockOwner' = Acquire("_initialization_lock", t)
            /\ config' = op[t].cfg
            /\ factory' = op[t].cfg
            /\ Goto(t, "init_build") /\ UNCHANGED ret
    /\ UNCHANGED <<impl, initialized, root_logger, loggers, lg,
                   cache, op, iter, tmp, snap, calls, bg, hist>>
    /\ UNCHANGED outsideMgr

\* initialize: self._root_logger = self._factory.create_logger("root", config).
Live_initialize_build(t) ==
    /\ impl = "live" /\ pc[t] = "init_build"
    /\ lg' = Append(lg, NewLogger(Root, op[t].cfg))
    /\ root_logger' = Len(lg) + 1
    /\ hist' = [hist EXCEPT !.rootBuilds = @ + 1]
    /\ Goto(t, "init_flag")
    /\ UNCHANGED <<impl, initialized, loggers, config, factory, lockOwner,
                   cache, op, iter, tmp, snap, ret, calls, bg>>
    /\ UNCHANGED outsideMgr

\* initialize: self._initialized = True, then the with-block ends.
Live_initialize_flag(t) ==
    /\ impl = "live" /\ pc[t] = "init_flag"
    /\ initialized' = TRUE
    /\ hist' = [hist EXCEPT !.initFlips = IF initialized THEN @ ELSE @ + 1]
    /\ lockOwner' = Release({"_initialization_lock"})
    /\ Return(t, "ok", None)
    /\ UNCHANGED <<impl, root_logger, loggers, config, factory, lg,
                   cache, op, iter, tmp, snap, calls, bg>>
    /\ UNCHANGED outsideMgr

\* get_logger: the _initialized check and the root-name test.
Live_get_logger_check(t) ==
    /\ impl = "live" /\ pc[t] = "gl_chk"
    /\ IF ~initialized THEN Return(t, "RuntimeError", None)
       ELSE IF op[t].name = Root THEN Goto(t, "gl_root") /\ UNCHANGED ret
       ELSE Goto(t, "gl_body") /\ UNCHANGED ret
    /\ UNCHANGED <<impl, initialized, root_logger, loggers, config, factory, lockOwner, lg,
                   cache, op, iter, tmp, snap, calls, bg, hist>>
    /\ UNCHANGED outsideMgr

\* get_logger: return self._root_logger.
Live_get_logger_root(t) ==
    /\ impl = "live" /\ pc[t] = "gl_root"
    /\ Return(t, "ok", root_logger)
    /\ UNCHANGED <<impl, initialized, root_logger, loggers, config, factory, lockOwner, lg,
                   cache, op, iter, tmp, snap, calls, bg, hist>>
    /\ UNCHANGED outsideMgr

\* get_logger: with self._loggers_lock: look the name up, or create and store it.
Live_get_logger_body(t) ==
    /\ impl = "live" /\ pc[t] = "gl_body"
    /\ Free("_loggers_lock")
    /\ hist' = [hist EXCEPT !.tookLock[t] = TRUE]
    /\ IF loggers[op[t].name] # None
       THEN Return(t, "ok", loggers[op[t].name]) /\ UNCHANGED <<lg, loggers>>
       ELSE /\ lg' = Append(lg, NewLogger(op[t].name, config))
            /\ loggers' = [loggers EXCEPT ![op[t].name] = Len(lg) + 1]
            /\ Return(t, "ok", Len(lg) + 1)
    /\ UNCHANGED <<impl, initialized, root_logger, config, factory, lockOwner,
                   cache, op, iter, tmp, snap, calls, bg>>
    /\ UNCHANGED outsideMgr

\* update_config: the _initialized check.
Live_update_config_check(t) ==
    /\ impl = "live" /\ pc[t] = "uc_chk"
    /\ IF ~initialized THEN Return(t, "RuntimeError", None)
       ELSE Goto(t, "uc_lock") /\ UNCHANGED ret
    /\ UNCHANGED <<impl, initialized, root_logger, loggers, config, factory, lockOwner, lg,
                   cache, op, iter, tmp, snap, calls, bg, hist>>
    /\ UNCHANGED outsideMgr

\* update_config: with self._config_lock: self._config = config.
Live_update_config_lock(t) ==
    /\ impl = "live" /\ pc[t] = "uc_lock"
    /\ Free("_config_lock")
    /\ lockOwner' = Acquire("_config_lock", t)
    /\ config' = op[t].cfg
    /\ Goto(t, "uc_root")
    /\ UNCHANGED <<impl, factory, initialized, root_logger, loggers, lg,
                   cache, op, iter, tmp, snap, ret, calls, bg, hist>>
    /\ UNCHANGED outsideMgr

\* update_config: self._root_logger.update_config(config), inside the with-block.
Live_update_config_root(t) ==
    /\ impl = "live" /\ pc[t] = "uc_root"
    /\ IF root_logger = None
       THEN /\ lockOwner' = Release({"_config_lock"})
            /\ Return(t, "AttributeError", None)
            /\ UNCHANGED lg
       ELSE /\ lg' = LoggerUpdateConfig(root_logger, op[t].cfg)
            /\ Goto(t, "uc_llock")
            /\ UNCHANGED <<lockOwner, ret>>
    /\ UNCHANGED <<impl, initialized, root_logger, loggers, config, factory,
                   cache, op, iter, tmp, snap, calls, bg, hist>>
    /\ UNCHANGED outsideMgr

\* update_config: with self._loggers_lock: start the loop over _loggers.values().
Live_update_config_loggers_lock(t) ==
    /\ impl = "live" /\ pc[t] = "uc_llock"
    /\ Free("_loggers_lock")
    /\ lockOwner' = Acquire("_loggers_lock", t)
    /\ iter' = [iter EXCEPT ![t] = Values(loggers)]
    /\ Goto(t, "uc_iter")
    /\ UNCHANGED <<impl, initialized, root_logger, loggers, config, factory, lg,
                   cache, op, tmp, snap, ret, calls, bg, hist>>
    /\ UNCHANGED outsideMgr

\* update_config leaving _loggers_lock locked when it returns.
Live_update_config_each_leak(t) ==
    /\ impl = "live" /\ pc[t] = "uc_iter"
    /\ IF iter[t] = <<>>
       THEN /\ lockOwner' = Release({"_config_lock"})
            /\ Return(t, "ok", None)
            /\ UNCHANGED <<lg, iter>>
       ELSE /\ lg' = LoggerUpdateConfig(Head(iter[t]), op[t].cfg)
            /\ iter' = [iter EXCEPT ![t] = Tail(@)]
            /\ UNCHANGED <<lockOwner, pc, ret>>
    /\ UNCHANGED <<impl, initialized, root_logger, loggers, config, factory,
                   cache, op, tmp, snap, calls, bg, hist>>
    /\ UNCHANGED outsideMgr

\* update_config: logger.update_config(config) for the next logger; after the
\* last one both with-blocks end.
Live_update_config_each(t) ==
    /\ impl = "live" /\ pc[t] = "uc_iter"
    /\ IF iter[t] = <<>>
       THEN /\ lockOwner' = Release({"_loggers_lock", "_config_lock"})
            /\ Return(t, "ok", None)
            /\ UNCHANGED <<lg, iter>>
       ELSE /\ lg' = LoggerUpdateConfig(Head(iter[t]), op[t].cfg)
            /\ iter' = [iter EXCEPT ![t] = Tail(@)]
            /\ UNCHANGED <<lockOwner, pc, ret>>
    /\ UNCHANGED <<impl, initialized, root_logger, loggers, config, factory,
                   cache, op, tmp, snap, calls, bg, hist>>
    /\ UNCHANGED outsideMgr

\* update_config: the logger whose turn it is re-enters the manager from its
\* own update_config, on the calling thread and inside both with-blocks: it
\* calls get_logger for a name that is not in the map yet, or update_config.
\* (get_config only reads self._config and takes no step of its own.)
Live_logger_reenters(t) ==
    /\ impl = "live" /\ pc[t] = "uc_iter"
    /\ iter[t] # <<>>
    /\ \E c \in CallsOf({"get_logger", "update_config"}) :
        /\ c.kind = "get_logger" => (c.name \in Names /\ loggers[c.name] = None)
        /\ op' = [op EXCEPT ![t] = c]
        /\ pc' = [pc EXCEPT ![t] = FirstLabel(c.kind)]
    /\ UNCHANGED <<impl, initialized, root_logger, loggers, config, factory, lockOwner,
                   lg, cache, iter, tmp, snap, ret, calls, bg, hist>>
    /\ UNCHANGED outsideMgr

\* remove_logger: the _initialized check.
Live_remove_logger_check(t) ==
    /\ impl = "live" /\ pc[t] = "rl_chk"
    /\ IF ~initialized THEN Return(t, "ok", 0)
       ELSE Goto(t, "rl_lock") /\ UNCHANGED ret
    /\ UNCHANGED <<impl, initialized, root_logger, loggers, config, factory, lockOwner, lg,
                   cache, op, iter, tmp, snap, calls, bg, hist>>
    /\ UNCHANGED outsideMgr

\* remove_logger: with self._loggers_lock: pop the name if it is there.
Live_remove_logger_lock(t) ==
    /\ impl = "live" /\ pc[t] = "rl_lock"
    /\ Free("_loggers_lock")
    /\ IF loggers[op[t].name] = None
       THEN Return(t, "ok", 0) /\ UNCHANGED <<lockOwner, loggers, tmp, hist>>
       ELSE /\ lockOwner' = Acquire("_loggers_lock", t)
            /\ tmp' = [tmp EXCEPT ![t] = loggers[op[t].name]]
            /\ loggers' = [loggers EXCEPT ![op[t].name] = None]
            /\ hist' = [hist EXCEPT !.removed = @ \cup {op[t].name}]
            /\ Goto(t, "rl_shut") /\ UNCHANGED ret
    /\ UNCHANGED <<impl, initialized, root_logger, config, factory, lg,
                   cache, op, iter, snap, calls, bg>>
    /\ UNCHANGED outsideMgr

\* remove_logger: logger.shutdown(), still inside the with-block; return True.
Live_remove_logger_shutdown(t) ==
    /\ impl = "live" /\ pc[t] = "rl_shut"
    /\ lg' = LoggerShutdown(tmp[t])
    /\ lockOwner' = Release({"_loggers_lock"})
    /\ Return(t, "ok", 1)
    /\ UNCHANGED <<impl, initialized, root_logger, loggers, config, factory,
                   cache, op, iter, tmp, snap, calls, bg, hist>>
    /\ UNCHANGED outsideMgr

\* shutdown: the _initialized check.
Live_shutdown_check(t) ==
    /\ impl = "live" /\ pc[t] = "sd_chk"
    /\ IF ~initialized THEN Return(t, "ok", None)
       ELSE Goto(t, "sd_lock") /\ UNCHANGED ret
    /\ UNCHANGED <<impl, initialized, root_logger, loggers, config, factory, lockOwner, lg,
                   cache, op, iter, tmp, snap, calls, bg, hist>>
    /\ UNCHANGED outsideMgr

\* shutdown: with self._loggers_lock: start the loop over _loggers.values().
Live_shutdown_lock(t) ==
    /\ impl = "live" /\ pc[t] = "sd_lock"
    /\ Free("_loggers_lock")
    /\ lockOwner' = Acquire("_loggers_lock", t)
    /\ iter' = [iter EXCEPT ![t] = Values(loggers)]
    /\ Goto(t, "sd_iter")
    /\ UNCHANGED <<impl, initialized, root_logger, loggers, config, factory, lg,
                   cache, op, tmp, snap, ret, calls, bg, hist>>
    /\ UNCHANGED outsideMgr

\* shutdown: logger.shutdown() for the next logger; after the last one
\* self._loggers.clear() and the with-block ends.
Live_shutdown_each(t) ==
    /\ impl = "live" /\ pc[t] = "sd_iter"
    /\ IF iter[t] = <<>>
       THEN /\ loggers' = [n \in Names |-> None]
            /\ hist' = [hist EXCEPT !.removed = Names]
            /\ lockOwner' = Release({"_loggers_lock"})
            /\ Goto(t, "sd_rootchk")
            /\ UNCHANGED <<lg, iter>>
       ELSE /\ lg' = LoggerShutdown(Head(iter[t]))
            /\ iter' = [iter EXCEPT ![t] = Tail(@)]
            /\ UNCHANGED <<lockOwner, loggers, pc, hist>>
    /\ UNCHANGED <<impl, initialized, root_logger, config, factory,
                   cache, op, tmp, snap, ret, calls, bg>>
    /\ UNCHANGED outsideMgr

\* shutdown: if self._root_logger:
Live_shutdown_root_check(t) ==
    /\ impl = "live" /\ pc[t] = "sd_rootchk"
    /\ IF root_logger # None THEN Goto(t, "sd_rootcall") ELSE Goto(t, "sd_flag")
    /\ UNCHANGED <<impl, initialized, root_logger, loggers, config, factory, lockOwner, lg,
                   cache, op, iter, tmp, snap, ret, calls, bg, hist>>
    /\ UNCHANGED outsideMgr

\* shutdown: self._root_logger.shutdown() (the attribute is read again).
Live_shutdown_root_call(t) ==
    /\ impl = "live" /\ pc[t] = "sd_rootcall"
    /\ IF root_logger = None
       THEN Return(t, "AttributeError", None) /\ UNCHANGED lg
       ELSE /\ lg' = LoggerShutdown(root_logger)
            /\ Goto(t, "sd_rootclr") /\ UNCHANGED ret
    /\ UNCHANGED <<impl, initialized, root_logger, loggers, config, factory, lockOwner,
                   cache, op, iter, tmp, snap, calls, bg, hist>>
    /\ UNCHANGED outsideMgr

\* shutdown: self._root_logger = None.
Live_shutdown_root_clear(t) ==
    /\ impl = "live" /\ pc[t] = "sd_rootclr"
    /\ root_logger' = None
    /\ Goto(t, "sd_flag")
    /\ UNCHANGED <<impl, initialized, loggers, config, factory, lockOwner, lg,
                   cache, op, iter, tmp, snap, ret, calls, bg, hist>>
    /\ UNCHANGED outsideMgr

\* shutdown: self._initialized = False.
Live_shutdown_flag(t) ==
    /\ impl = "live" /\ pc[t] = "sd_flag"
    /\ initialized' = FALSE
    /\ Return(t, "ok", None)
    /\ UNCHANGED <<impl, root_logger, loggers, config, factory, lockOwner, lg,
                   cache, op, iter, tmp, snap, calls, bg, hist>>
    /\ UNCHANGED outsideMgr

\* ----------------------------------------------------------------- "fix"
\* LogManager of src/log_manager_final_fix.py: lock-free reads of an
\* immutable map, a per-thread cache, background fan-out of updates.

\* initialize: the unlocked first check of _initialized.
Fix_initialize_check(t) ==
    /\ impl = "fix" /\ pc[t] = "init_chk"
    /\ IF initialized THEN Return(t, "ok", None)
       ELSE Goto(t, "init_lock") /\ UNCHANGED ret
    /\ UNCHANGED <<impl, initialized, root_logger, loggers, config, factory, lockOwner, lg,
                   cache, op, iter, tmp, snap, calls, bg, hist>>
    /\ UNCHANGED outsideMgr

\* initialize: take _initialization_lock, check again, store the factory.
Fix_initialize_lock(t) ==
    /\ impl = "fix" /\ pc[t] = "init_lock"
    /\ Free("_initialization_lock")
    /\ IF initialized
       THEN Return(t, "ok", None) /\ UNCHANGED <<lockOwner, factory>>
       ELSE /\ lockOwner' = Acquire("_initialization_lock", t)
            /\ factory' = op[t].cfg
            /\ Goto(t, "init_build") /\ UNCHANGED ret
    /\ UNCHANGED <<impl, initialized, root_logger, loggers, config, lg,
                   cache, op, iter, tmp, snap, calls, bg, hist>>
    /\ UNCHANGED outsideMgr

\* initialize: root_logger = self._factory.create_logger("root", config), a local.
Fix_initialize_build(t) ==
    /\ impl = "fix" /\ pc[t] = "init_build"
    /\ lg' = Append(lg, NewLogger(Root, op[t].cfg))
    /\ tmp' = [tmp EXCEPT ![t] = Len(lg) + 1]
    /\ hist' = [hist EXCEPT !.rootBuilds = @ + 1]
    /\ Goto(t, "init_pub")
    /\ UNCHANGED <<impl, initialized, root_logger, loggers, config, factory, lockOwner,
                   cache, op, iter, snap, ret, calls, bg>>
    /\ UNCHANGED outsideMgr

\* initialize: with self._config_lock: publish config and root logger.
Fix_initialize_publish(t) ==
    /\ impl = "fix" /\ pc[t] = "init_pub"
    /\ Free("_config_lock")
    /\ config' = op[t].cfg
    /\ root_logger' = tmp[t]
    /\ Goto(t, "init_flag")
    /\ UNCHANGED <<impl, factory, initialized, loggers, lockOwner, lg,
                   cache, op, iter, tmp, snap, ret, calls, bg, hist>>
    /\ UNCHANGED outsideMgr

\* initialize: self._initialized = True, then the with-block ends.
Fix_initialize_flag(t) ==
    /\ impl = "fix" /\ pc[t] = "init_flag"
    /\ initialized' = TRUE
    /\ hist' = [hist EXCEPT !.initFlips = IF initialized THEN @ ELSE @ + 1]
    /\ lockOwner' = Release({"_initialization_lock"})
    /\ Return(t, "ok", None)
    /\ UNCHANGED <<impl, root_logger, loggers, config, factory, lg,
                   cache, op, iter, tmp, snap, calls, bg>>
    /\ UNCHANGED outsideMgr

\* get_logger: the _initialized check and the root-name test.
Fix_get_logger_check(t) ==
    /\ impl = "fix" /\ pc[t] = "gl_chk"
    /\ IF ~initialized THEN Return(t, "RuntimeError", None)
       ELSE IF op[t].name = Root THEN Goto(t, "gl_root") /\ UNCHANGED ret
       ELSE Goto(t, "gl_read") /\ UNCHANGED ret
    /\ UNCHANGED <<impl, initialized, root_logger, loggers, config, factory, lockOwner, lg,
                   cache, op, iter, tmp, snap, calls, bg, hist>>
    /\ UNCHANGED outsideMgr

\* get_logger: return self._root_logger_ref.
Fix_get_logger_root(t) ==
    /\ impl = "fix" /\ pc[t] = "gl_root"
    /\ Return(t, "ok", root_logger)
    /\ UNCHANGED <<impl, initialized, root_logger, loggers, config, factory, lockOwner, lg,
                   cache, op, iter, tmp, snap, calls, bg, hist>>
    /\ UNCHANGED outsideMgr

\* get_logger: the thread-local cache, then the unlocked read of the map.
Fix_get_logger_read(t) ==
    /\ impl = "fix" /\ pc[t] = "gl_read"
    /\ IF cache[t][op[t].name] # None
       THEN Return(t, "ok", cache[t][op[t].name]) /\ UNCHANGED cache
       ELSE IF loggers[op[t].name] # None
       THEN /\ cache' = [cache EXCEPT ![t][op[t].name] = loggers[op[t].name]]
            /\ Return(t, "ok", loggers[op[t].name])
       ELSE Goto(t, "gl_body") /\ UNCHANGED <<ret, cache>>
    /\ UNCHANGED <<impl, initialized, root_logger, loggers, config, factory, lockOwner, lg,
                   op, iter, tmp, snap, calls, bg, hist>>
    /\ UNCHANGED outsideMgr

\* get_logger creating the logger under the lock without the second lookup.
Fix_get_logger_body_unchecked(t) ==
    /\ impl = "fix" /\ pc[t] = "gl_body"
    /\ Free("_loggers_lock")
    /\ hist' = [hist EXCEPT !.tookLock[t] = TRUE]
    /\ lockOwner' = Acquire("_loggers_lock", t)
    /\ lg' = Append(lg, NewLogger(op[t].name, config))
    /\ tmp' = [tmp EXCEPT ![t] = Len(lg) + 1]
    /\ snap' = [snap EXCEPT ![t] = [loggers EXCEPT ![op[t].name] = Len(lg) + 1]]
    /\ Goto(t, "gl_pub")
    /\ UNCHANGED <<impl, initialized, root_logger, loggers, config, factory,
                   cache, op, iter, ret, calls, bg>>
    /\ UNCHANGED outsideMgr

\* get_logger copying the map and creating the logger without holding
\* _loggers_lock.
Fix_get_logger_body_unlocked(t) ==
    /\ impl = "fix" /\ pc[t] = "gl_body"
    /\ hist' = [hist EXCEPT !.tookLock[t] = TRUE]
    /\ IF loggers[op[t].name] # None
       THEN /\ cache' = [cache EXCEPT ![t][op[t].name] = loggers[op[t].name]]
            /\ Return(t, "ok", loggers[op[t].name])
            /\ UNCHANGED <<lg, tmp, snap>>
       ELSE /\ lg' = Append(lg, NewLogger(op[t].name, config))
            /\ tmp' = [tmp EXCEPT ![t] = Len(lg) + 1]
            /\ snap' = [snap EXCEPT ![t] = [loggers EXCEPT ![op[t].name] = Len(lg) + 1]]
            /\ Goto(t, "gl_pub")
            /\ UNCHANGED <<cache, ret>>
    /\ UNCHANGED <<impl, initialized, root_logger, loggers, config, factory, lockOwner,
                   op, iter, calls, bg>>
    /\ UNCHANGED outsideMgr

\* get_logger: with self._loggers_lock: check again; else create the logger
\* and build new_loggers, a copy of the map with the new entry.
Fix_get_logger_body(t) ==
    /\ impl = "fix" /\ pc[t] = "gl_body"
    /\ Free("_loggers_lock")
    /\ hist' = [hist EXCEPT !.tookLock[t] = TRUE]
    /\ IF loggers[op[t].name] # None
       THEN /\ cache' = [cache EXCEPT ![t][op[t].name] = loggers[op[t].name]]
            /\ Return(t, "ok", loggers[op[t].name])
            /\ UNCHANGED <<lockOwner, lg, tmp, snap>>
       ELSE /\ lockOwner' = Acquire("_loggers_lock", t)
            /\ lg' = Append(lg, NewLogger(op[t].name, config))
            /\ tmp' = [tmp EXCEPT ![t] = Len(lg) + 1]
            /\ snap' = [snap EXCEPT ![t] = [loggers EXCEPT ![op[t].name] = Len(lg) + 1]]
            /\ Goto(t, "gl_pub")
            /\ UNCHANGED <<cache, ret>>
    /\ UNCHANGED <<impl, initialized, root_logger, loggers, config, factory,
                   op, iter, calls, bg>>
    /\ UNCHANGED outsideMgr

\* get_logger: self._loggers_immutable = new_loggers; the logger goes into
\* the thread's cache, the with-block ends and the logger is returned.
Fix_get_logger_publish(t) ==
    /\ impl = "fix" /\ pc[t] = "gl_pub"
    /\ loggers' = snap[t]
    /\ cache' = [cache EXCEPT ![t][op[t].name] = tmp[t]]
    /\ lockOwner' = Release({"_loggers_lock"})
    /\ snap' = [snap EXCEPT ![t] = NoSnap]
    /\ Return(t, "ok", tmp[t])
    /\ UNCHANGED <<impl, initialized, root_logger, config, factory, lg,
                   op, iter, tmp, calls, bg, hist>>
    /\ UNCHANGED outsideMgr

\* update_config: the _initialized check.
Fix_update_config_check(t) ==
    /\ impl = "fix" /\ pc[t] = "uc_chk"
    /\ IF ~initialized THEN Return(t, "RuntimeError", None)
       ELSE Goto(t, "uc_set") /\ UNCHANGED ret
    /\ UNCHANGED <<impl, initialized, root_logger, loggers, config, factory, lockOwner, lg,
                   cache, op, iter, tmp, snap, calls, bg, hist>>
    /\ UNCHANGED outsideMgr

\* update_config: with self._config_lock: self._config_ref = config.
Fix_update_config_set(t) ==
    /\ impl = "fix" /\ pc[t] = "uc_set"
    /\ Free("_config_lock")
    /\ config' = op[t].cfg
    /\ Goto(t, "uc_root")
    /\ UNCHANGED <<impl, factory, initialized, root_logger, loggers, lockOwner, lg,
                   cache, op, iter, tmp, snap, ret, calls, bg, hist>>
    /\ UNCHANGED outsideMgr

\* update_config: self._root_logger_ref.update_config(config), no lock held.
Fix_update_config_root(t) ==
    /\ impl = "fix" /\ pc[t] = "uc_root"
    /\ IF root_logger = None
       THEN Return(t, "AttributeError", None) /\ UNCHANGED lg
       ELSE /\ lg' = LoggerUpdateConfig(root_logger, op[t].cfg)
            /\ Goto(t, "uc_spawn") /\ UNCHANGED ret
    /\ UNCHANGED <<impl, initialized, root_logger, loggers, config, factory, lockOwner,
                   cache, op, iter, tmp, snap, calls, bg, hist>>
    /\ UNCHANGED outsideMgr

\* update_config: snapshot the map's values and start the background thread.
Fix_update_config_spawn(t) ==
    /\ impl = "fix" /\ pc[t] = "uc_spawn"
    /\ bg' = IF Values(loggers) = <<>> THEN bg
             ELSE Append(bg, [cfg |-> op[t].cfg, todo |-> Values(loggers)])
    /\ Return(t, "ok", None)
    /\ UNCHANGED <<impl, initialized, root_logger, loggers, config, factory, lockOwner, lg,
                   cache, op, iter, tmp, snap, calls, hist>>
    /\ UNCHANGED outsideMgr

\* update_loggers, the background thread: logger.update_config(config) for the
\* next logger of its snapshot; the thread ends after the last one.
Fix_update_loggers(i) ==
    /\ impl = "fix" /\ i \in DOMAIN bg
    /\ lg' = LoggerUpdateConfig(Head(bg[i].todo), bg[i].cfg)
    /\ bg' = IF Len(bg[i].todo) = 1
             THEN SubSeq(bg, 1, i - 1) \o SubSeq(bg, i + 1, Len(bg))
             ELSE [bg EXCEPT ![i].todo = Tail(@)]
    /\ UNCHANGED <<impl, initialized, root_logger, loggers, config, factory, lockOwner,
                   cache, pc, op, iter, tmp, snap, ret, calls, hist>>
    /\ UNCHANGED outsideMgr

\* remove_logger: the _initialized check.
Fix_remove_logger_check(t) ==
    /\ impl = "fix" /\ pc[t] = "rl_chk"
    /\ IF ~initialized THEN Return(t, "ok", 0)
       ELSE Goto(t, "rl_lock") /\ UNCHANGED ret
    /\ UNCHANGED <<impl, initialized, root_logger, loggers, config, factory, lockOwner, lg,
                   cache, op, iter, tmp, snap, calls, bg, hist>>
    /\ UNCHANGED outsideMgr

\* remove_logger: with self._loggers_lock: publish a map without the name.
Fix_remove_logger_lock(t) ==
    /\ impl = "fix" /\ pc[t] = "rl_lock"
    /\ Free("_loggers_lock")
    /\ IF loggers[op[t].name] = None
       THEN Return(t, "ok", 0) /\ UNCHANGED <<lockOwner, loggers, tmp, hist>>
       ELSE /\ lockOwner' = Acquire("_loggers_lock", t)
            /\ tmp' = [tmp EXCEPT ![t] = loggers[op[t].name]]
            /\ loggers' = [loggers EXCEPT ![op[t].name] = None]
            /\ hist' = [hist EXCEPT !.removed = @ \cup {op[t].name}]
            /\ Goto(t, "rl_shut") /\ UNCHANGED ret
    /\ UNCHANGED <<impl, initialized, root_logger, config, factory, lg,
                   cache, op, iter, snap, calls, bg>>
    /\ UNCHANGED outsideMgr

\* remove_logger: logger.shutdown() inside the with-block, then the calling
\* thread's cache entry is dropped; return True.
Fix_remove_logger_shutdown(t) ==
    /\ impl = "fix" /\ pc[t] = "rl_shut"
    /\ lg' = LoggerShutdown(tmp[t])
    /\ cache' = [cache EXCEPT ![t][op[t].name] = None]
    /\ lockOwner' = Release({"_loggers_lock"})
    /\ Return(t, "ok", 1)
    /\ UNCHANGED <<impl, initialized, root_logger, loggers, config, factory,
                   op, iter, tmp, snap, calls, bg, hist>>
    /\ UNCHANGED outsideMgr

\* shutdown: the _initialized check.
Fix_shutdown_check(t) ==
    /\ impl = "fix" /\ pc[t] = "sd_chk"
    /\ IF ~initialized THEN Return(t, "ok", None)
       ELSE Goto(t, "sd_lock") /\ UNCHANGED ret
    /\ UNCHANGED <<impl, initialized, root_logger, loggers, config, factory, lockOwner, lg,
                   cache, op, iter, tmp, snap, calls, bg, hist>>
    /\ UNCHANGED outsideMgr

\* shutdown: with self._loggers_lock: start the loop over the map's values.
Fix_shutdown_lock(t) ==
    /\ impl = "fix" /\ pc[t] = "sd_lock"
    /\ Free("_loggers_lock")
    /\ lockOwner' = Acquire("_loggers_lock", t)
    /\ iter' = [iter EXCEPT ![t] = Values(loggers)]
    /\ Goto(t, "sd_iter")
    /\ UNCHANGED <<impl, initialized, root_logger, loggers, config, factory, lg,
                   cache, op, tmp, snap, ret, calls, bg, hist>>
    /\ UNCHANGED outsideMgr

\* shutdown: logger.shutdown() for the next logger; after the last one the
\* map is replaced by an empty one.
Fix_shutdown_each(t) ==
    /\ impl = "fix" /\ pc[t] = "sd_iter"
    /\ IF iter[t] = <<>>
       THEN /\ loggers' = [n \in Names |-> None]
            /\ hist' = [hist EXCEPT !.removed = Names]
            /\ Goto(t, "sd_rootcall")
            /\ UNCHANGED <<lg, iter>>
       ELSE /\ lg' = LoggerShutdown(Head(iter[t]))
            /\ iter' = [iter EXCEPT ![t] = Tail(@)]
            /\ UNCHANGED <<loggers, pc, hist>>
    /\ UNCHANGED <<impl, initialized, root_logger, config, factory, lockOwner,
                   cache, op, tmp, snap, ret, calls, bg>>
    /\ UNCHANGED outsideMgr

\* shutdown: if the root reference is set, self._root_logger_ref.shutdown()
\* and self._root_logger_ref = None, all inside the with-block.
Fix_shutdown_root(t) ==
    /\ impl = "fix" /\ pc[t] = "sd_rootcall"
    /\ IF root_logger = None
       THEN UNCHANGED <<lg, root_logger>>
       ELSE lg' = LoggerShutdown(root_logger) /\ root_logger' = None
    /\ Goto(t, "sd_flag")
    /\ UNCHANGED <<impl, initialized, loggers, config, factory, lockOwner,
                   cache, op, iter, tmp, snap, ret, calls, bg, hist>>
    /\ UNCHANGED outsideMgr

\* shutdown: self._initialized = False, then the with-block ends.
Fix_shutdown_flag(t) ==
    /\ impl = "fix" /\ pc[t] = "sd_flag"
    /\ initialized' = FALSE
    /\ lockOwner' = Release({"_loggers_lock"})
    /\ Return(t, "ok", None)
    /\ UNCHANGED <<impl, root_logger, loggers, config, factory, lg,
                   cache, op, iter, tmp, snap, calls, bg, hist>>
    /\ UNCHANGED outsideMgr

\* ============================================================ AbstractLogger
\* The guard lock of the observer list is created on first use
\* (src/src/logs/core/abstracts.py).  One logger, several threads.
MaxLoggerCalls == 3

LThreads == {1, 2}
Observers == {1, 2, 3}

\* The observers whose on_log_record raises, and those whose on_error raises.
BadOnRecord == {2, 3}
BadOnError == {3}

\* The output strategies of the logger whose output() raises.
BadStrategies == {2}

\* What AbstractLogger's steps leave alone.
outsideLogger == <<mgrVars, asyncVars, errVars, metaVars, olVars, fbVars, groupVars,
    batchVars>>

\* AbstractLogger.__init__: no observers, no lock yet.
NoFrame == [my |-> None, idx |-> 0]

LoggerConstructed(cb) ==
    /\ observers_lock = None
    /\ obsLocks = <<>>
    /\ observers = <<>>
    /\ lpc = [t \in LThreads |-> "idle"]
    /\ lop = [t \in LThreads |-> [kind |-> "none", o |-> None]]
    /\ lmy = [t \in LThreads |-> None]
    /\ lcalls = MaxLoggerCalls
    /\ lidx = [t \in LThreads |-> 0]
    /\ lhist = [returned |-> 0, raised |-> 0, swallowed |-> 0,
                atDispatch |-> [t \in LThreads |-> <<>>],
                notified |-> [t \in LThreads |-> <<>>]]
    /\ lframe = [t \in LThreads |-> NoFrame]
    /\ calls_back = cb

InSeq(x, q) == \E i \in DOMAIN q : q[i] = x

\* list.remove(x): the list without the first x.
RemoveFirst(q, x) ==
    LET i == CHOOSE j \in DOMAIN q : q[j] = x /\ \A k \in 1..(j - 1) : q[k] # x
    IN SubSeq(q, 1, i - 1) \o SubSeq(q, i + 1, Len(q))

\* A thread calls add_observer(o) or remove_observer(o).
Observer_call(t) ==
    /\ lpc[t] = "idle" /\ lframe[t] = NoFrame
    /\ lcalls > 0
    /\ \E k \in {"add_observer", "remove_observer"}, o \in Observers :
        lop' = [lop EXCEPT ![t] = [kind |-> k, o |-> o]]
    /\ lpc' = [lpc EXCEPT ![t] = "chk"]
    /\ lcalls' = lcalls - 1
    /\ UNCHANGED <<observers_lock, obsLocks, observers, lmy>>
    /\ UNCHANGED <<lidx, lhist>>
    /\ UNCHANGED <<lframe, calls_back>>
    /\ UNCHANGED outsideLogger

\* if self._observers_lock is None:
Observer_lock_is_none(t) ==
    /\ lpc[t] = "chk"
    /\ lpc' = [lpc EXCEPT ![t] = IF observers_lock = None THEN "make" ELSE "with"]
    /\ UNCHANGED <<observers_lock, obsLocks, observers, lop, lmy, lcalls>>
    /\ UNCHANGED <<lidx, lhist>>
    /\ UNCHANGED <<lframe, calls_back>>
    /\ UNCHANGED outsideLogger

\* self._observers_lock = threading.Lock()
Observer_lock_create(t) ==
    /\ lpc[t] = "make"
    /\ obsLocks' = Append(obsLocks, None)
    /\ observers_lock' = Len(obsLocks) + 1
    /\ lpc' = [lpc EXCEPT ![t] = "with"]
    /\ UNCHANGED <<observers, lop, lmy, lcalls>>
    /\ UNCHANGED <<lidx, lhist>>
    /\ UNCHANGED <<lframe, calls_back>>
    /\ UNCHANGED outsideLogger

\* with self._observers_lock: the attribute is read ...
Observer_with_eval(t) ==
    /\ lpc[t] = "with"
    /\ lmy' = [lmy EXCEPT ![t] = observers_lock]
    /\ lpc' = [lpc EXCEPT ![t] = "acq"]
    /\ UNCHANGED <<observers_lock, obsLocks, observers, lop, lcalls>>
    /\ UNCHANGED <<lidx, lhist>>
    /\ UNCHANGED <<lframe, calls_back>>
    /\ UNCHANGED outsideLogger

\* ... and that lock object is acquired.
Observer_with_acquire(t) ==
    /\ lpc[t] = "acq"
    /\ obsLocks[lmy[t]] = None
    /\ obsLocks' = [obsLocks EXCEPT ![lmy[t]] = t]
    /\ lpc' = [lpc EXCEPT ![t] = IF lop[t].kind = "log" THEN "notify" ELSE "test"]
    /\ lidx' = [lidx EXCEPT ![t] = 0]
    /\ lhist' = IF lop[t].kind = "log"
                THEN [lhist EXCEPT !.atDispatch[t] = observers, !.notified[t] = <<>>]
                ELSE lhist
    /\ UNCHANGED <<observers_lock, observers, lop, lmy, lcalls>>
    /\ UNCHANGED <<lframe, calls_back>>
    /\ UNCHANGED outsideLogger

\* if observer (not) in self._observers: when there is nothing to do the
\* with-block ends.
Observer_test(t) ==
    /\ lpc[t] = "test"
    /\ IF (lop[t].kind = "add_observer") = InSeq(lop[t].o, observers)
       THEN /\ obsLocks' = [obsLocks EXCEPT ![lmy[t]] = None]
            /\ lpc' = [lpc EXCEPT ![t] = "idle"]
       ELSE /\ lpc' = [lpc EXCEPT ![t] = "apply"]
            /\ UNCHANGED obsLocks
    /\ UNCHANGED <<observers_lock, observers, lop, lmy, lcalls>>
    /\ UNCHANGED <<lidx, lhist>>
    /\ UNCHANGED <<lframe, calls_back>>
    /\ UNCHANGED outsideLogger

\* self._observers.append(observer) or self._observers.remove(observer)
\* (remove raises ValueError when the observer is gone); the with-block ends.
Observer_apply(t) ==
    /\ lpc[t] = "apply"
    /\ observers' = IF lop[t].kind = "add_observer" THEN Append(observers, lop[t].o)
                    ELSE IF InSeq(lop[t].o, observers) THEN RemoveFirst(observers, lop[t].o)
                    ELSE observers
    /\ obsLocks' = [obsLocks EXCEPT ![lmy[t]] = None]
    /\ lpc' = [lpc EXCEPT ![t] = "idle"]
    /\ UNCHANGED <<observers_lock, lop, lmy, lcalls>>
    /\ UNCHANGED <<lidx, lhist>>
    /\ UNCHANGED <<lframe, calls_back>>
    /\ UNCHANGED outsideLogger

\* A thread calls log(level, message) with a level that is enabled and a
\* record the filters let through: _notify_observers(record) comes first.
Log_call(t) ==
    /\ lpc[t] = "idle" /\ lframe[t] = NoFrame
    /\ lcalls > 0
    /\ lop' = [lop EXCEPT ![t] = [kind |-> "log", o |-> None]]
    /\ lpc' = [lpc EXCEPT ![t] = "chk"]
    /\ lcalls' = lcalls - 1
    /\ UNCHANGED <<observers_lock, obsLocks, observers, lmy, lidx, lhist>>
    /\ UNCHANGED <<lframe, calls_back>>
    /\ UNCHANGED outsideLogger

\* _notify_observers: for observer in self._observers: the list iterator
\* reads the list itself, entry by entry.  observer.on_log_record(record);
\* what it raises goes to observer.on_error, and what on_error raises leaves
\* the with-block and log().
Notify_each(t) ==
    /\ lpc[t] = "notify"
    /\ lidx[t] < Len(observers) => observers[lidx[t] + 1] \notin calls_back
    /\ IF lidx[t] >= Len(observers)
       THEN /\ obsLocks' = [obsLocks EXCEPT ![lmy[t]] = None]
            /\ lpc' = [lpc EXCEPT ![t] = "output"]
            /\ UNCHANGED <<lidx, lhist>>
       ELSE IF observers[lidx[t] + 1] \in BadOnRecord /\ observers[lidx[t] + 1] \in BadOnError
       THEN /\ obsLocks' = [obsLocks EXCEPT ![lmy[t]] = None]
            /\ lpc' = [lpc EXCEPT ![t] = "idle"]
            /\ lidx' = [lidx EXCEPT ![t] = 0]
            /\ lhist' = [lhist EXCEPT !.raised = @ + 1,
                                      !.notified[t] = Append(@, observers[lidx[t] + 1])]
       ELSE /\ lidx' = [lidx EXCEPT ![t] = @ + 1]
            /\ lhist' = [lhist EXCEPT !.notified[t] = Append(@, observers[lidx[t] + 1])]
            /\ UNCHANGED <<obsLocks, lpc>>
    /\ UNCHANGED <<observers_lock, observers, lop, lmy, lcalls>>
    /\ UNCHANGED <<lframe, calls_back>>
    /\ UNCHANGED outsideLogger

\* _notify_observers: observer.on_log_record(record) of an observer that calls
\* add_observer or remove_observer on the logger notifying it.  The call runs
\* on the notifying thread, inside the with-block.
Observer_reenters(t) ==
    /\ lpc[t] = "notify"
    /\ lidx[t] < Len(observers) /\ observers[lidx[t] + 1] \in calls_back
    /\ \E k \in {"add_observer", "remove_observer"}, o \in Observers :
        lop' = [lop EXCEPT ![t] = [kind |-> k, o |-> o]]
    /\ lframe' = [lframe EXCEPT ![t] = [my |-> lmy[t], idx |-> lidx[t]]]
    /\ lpc' = [lpc EXCEPT ![t] = "chk"]
    /\ UNCHANGED <<observers_lock, obsLocks, observers, lmy, lcalls, lidx, lhist, calls_back>>
    /\ UNCHANGED outsideLogger

\* The callback's add_observer or remove_observer has returned:
\* on_log_record returns and the for-loop goes on to the next entry.
Observer_returns(t) ==
    /\ lpc[t] = "idle" /\ lframe[t] # NoFrame
    /\ lpc' = [lpc EXCEPT ![t] = "notify"]
    /\ lop' = [lop EXCEPT ![t] = [kind |-> "log", o |-> None]]
    /\ lmy' = [lmy EXCEPT ![t] = lframe[t].my]
    /\ lidx' = [lidx EXCEPT ![t] = lframe[t].idx + 1]
    /\ lframe' = [lframe EXCEPT ![t] = NoFrame]
    /\ UNCHANGED <<observers_lock, obsLocks, observers, lcalls, lhist, calls_back>>
    /\ UNCHANGED outsideLogger

\* ObservableLogger._output_with_strategies: strategy.output(record) for each
\* strategy; what a strategy raises is dropped (pass).  log() returns.
Output_with_strategies(t) ==
    /\ lpc[t] = "output"
    /\ lpc' = [lpc EXCEPT ![t] = "idle"]
    /\ lhist' = [lhist EXCEPT !.returned = @ + 1,
                              !.swallowed = @ + Cardinality(BadStrategies)]
    /\ UNCHANGED <<observers_lock, obsLocks, observers, lop, lmy, lcalls, lidx>>
    /\ UNCHANGED <<lframe, calls_back>>
    /\ UNCHANGED outsideLogger

NextLogger ==
    \/ \E t \in LThreads : Observer_call(t)
    \/ \E t \in LThreads : Observer_lock_is_none(t)
    \/ \E t \in LThreads : Observer_lock_create(t)
    \/ \E t \in LThreads : Observer_with_eval(t)
    \/ \E t \in LThreads : Observer_with_acquire(t)
    \/ \E t \in LThreads : Observer_test(t)
    \/ \E t \in LThreads : Observer_apply(t)
    \/ \E t \in LThreads : Log_call(t)
    \/ \E t \in LThreads : Notify_each(t)
    \/ \E t \in LThreads : Output_with_strategies(t)

\* =========================================================== AsyncLogHandler
\* The bounded queue, its worker thread and its flush thread
\* (src/src/logs/loggers/async_logger.py).
QueueSize == 2
MaxRecords == 3
MaxStops == 2
MaxFlushes == 1
MaxUpdates == 1

\* The output strategies registered with the handler, in list order.
Strategies == <<1, 2, 3>>

Pool == {"worker", "flush"}

\* What AsyncLogHandler's steps leave alone.
outsideHandler == <<mgrVars, lazyVars, errVars, metaVars, olVars, fbVars, groupVars,
    batchVars>>

\* AsyncLogHandler.__init__(queue_size, flush_interval, error_handler): both
\* threads are started.  eh: "none" (no handler), "silent" (a handler that
\* returns, as AsyncLogger._handle_error) or "raising" (a handler that raises).
\* add_strategy has registered the strategies; those in bad raise in output().
HandlerConstructed(eh, bad) ==
    /\ queue = <<>>
    /\ stop_event = FALSE
    /\ flush_event = FALSE
    /\ error_handler = eh
    /\ faulty = bad
    /\ strategies_lock = "free"
    /\ handler_strategies = Strategies
    /\ thr = [x \in Pool |-> [pc |-> "loop", rec |-> None, todo |-> <<>>]]
    /\ out = [i \in DOMAIN Strategies |-> <<>>]
    /\ caller = [pc |-> "idle"]
    /\ ahist = [attempts |-> 0, rejected |-> 0, reported |-> 0, raised |-> 0,
                dequeued |-> 0, stops |-> 0, flushes |-> 0, updates |-> 0,
                timedOut |-> FALSE,
                taken |-> {}, reports |-> [r \in 1..MaxRecords |-> 0],
                accepted |-> {}, atFlush |-> {}]

Alive(x) == thr[x].pc # "exited"

\* enqueue(record): put_nowait; on queue.Full the record is dropped, the
\* error handler (if any) is told, and False is returned.
Enqueue ==
    /\ ahist.attempts < MaxRecords
    /\ IF Len(queue) < QueueSize
       THEN /\ queue' = Append(queue, ahist.attempts + 1)
            /\ ahist' = [ahist EXCEPT !.attempts = @ + 1,
                                      !.accepted = @ \cup {ahist.attempts + 1}]
       ELSE /\ queue' = queue
            /\ ahist' = [ahist EXCEPT
                   !.attempts = @ + 1,
                   !.rejected = @ + 1,
                   !.reported = IF error_handler # "none" THEN @ + 1 ELSE @,
                   !.raised = IF error_handler = "raising" THEN @ + 1 ELSE @]
    /\ UNCHANGED <<stop_event, flush_event, error_handler, faulty, strategies_lock, thr,
                   out, caller>>
    /\ UNCHANGED handler_strategies
    /\ UNCHANGED outsideHandler

\* _process_queue: while not self._stop_event.is_set():
Worker_loop ==
    /\ thr["worker"].pc = "loop"
    /\ thr' = [thr EXCEPT !["worker"].pc = IF stop_event THEN "exited" ELSE "get"]
    /\ UNCHANGED <<queue, stop_event, flush_event, error_handler, faulty, strategies_lock,
                   out, caller, ahist>>
    /\ UNCHANGED handler_strategies
    /\ UNCHANGED outsideHandler

\* _process_queue: record = self._queue.get(timeout=0.1); queue.Empty: continue.
Worker_get ==
    /\ thr["worker"].pc = "get"
    /\ IF queue = <<>>
       THEN /\ thr' = [thr EXCEPT !["worker"].pc = "loop"]
            /\ UNCHANGED <<queue, ahist>>
       ELSE /\ thr' = [thr EXCEPT !["worker"].pc = "proc", !["worker"].rec = Head(queue)]
            /\ queue' = Tail(queue)
            /\ ahist' = [ahist EXCEPT !.dequeued = @ + 1,
                                      !.taken = @ \cup {Head(queue)}]
    /\ UNCHANGED <<stop_event, flush_event, error_handler, faulty, strategies_lock,
                   out, caller>>
    /\ UNCHANGED handler_strategies
    /\ UNCHANGED outsideHandler

\* _periodic_flush: while not self._stop_event.is_set():
Flush_loop ==
    /\ thr["flush"].pc = "loop"
    /\ thr' = [thr EXCEPT !["flush"].pc = IF stop_event THEN "exited" ELSE "wait"]
    /\ UNCHANGED <<queue, stop_event, flush_event, error_handler, faulty, strategies_lock,
                   out, caller, ahist>>
    /\ UNCHANGED handler_strategies
    /\ UNCHANGED outsideHandler

\* _periodic_flush: self._flush_event.wait(timeout=...) returns (the event was
\* set, or the interval elapsed) and self._flush_event.clear().
Flush_wait ==
    /\ thr["flush"].pc = "wait"
    /\ flush_event' = FALSE
    /\ thr' = [thr EXCEPT !["flush"].pc = "chk"]
    /\ UNCHANGED <<queue, stop_event, error_handler, faulty, strategies_lock,
                   out, caller, ahist>>
    /\ UNCHANGED handler_strategies
    /\ UNCHANGED outsideHandler

\* _periodic_flush: if not self._stop_event.is_set(): self._flush_queue()
Flush_check ==
    /\ thr["flush"].pc = "chk"
    /\ thr' = [thr EXCEPT !["flush"].pc = IF stop_event THEN "loop" ELSE "fq"]
    /\ UNCHANGED <<queue, stop_event, flush_event, error_handler, faulty, strategies_lock,
                   out, caller, ahist>>
    /\ UNCHANGED handler_strategies
    /\ UNCHANGED outsideHandler

\* _flush_queue: while not self._queue.empty(): record = self._queue.get_nowait()
\* (queue.Empty: break).
Flush_queue ==
    /\ thr["flush"].pc = "fq"
    /\ IF queue = <<>>
       THEN /\ thr' = [thr EXCEPT !["flush"].pc = "loop"]
            /\ UNCHANGED <<queue, ahist>>
       ELSE /\ thr' = [thr EXCEPT !["flush"].pc = "proc", !["flush"].rec = Head(queue)]
            /\ queue' = Tail(queue)
            /\ ahist' = [ahist EXCEPT !.dequeued = @ + 1,
                                      !.taken = @ \cup {Head(queue)}]
    /\ UNCHANGED <<stop_event, flush_event, error_handler, faulty, strategies_lock,
                   out, caller>>
    /\ UNCHANGED handler_strategies
    /\ UNCHANGED outsideHandler

\* _process_record: with self._strategies_lock: for strategy in self._strategies:
Process_record(x) ==
    /\ thr[x].pc = "proc"
    /\ strategies_lock = "free"
    /\ strategies_lock' = x
    /\ thr' = [thr EXCEPT ![x].pc = "out", ![x].todo = handler_strategies]
    /\ UNCHANGED <<queue, stop_event, flush_event, error_handler, faulty,
                   out, caller, ahist>>
    /\ UNCHANGED handler_strategies
    /\ UNCHANGED outsideHandler

\* _process_record: strategy.output(record) for the next strategy; after the
\* last one the with-block ends, task_done() is called and the thread's loop
\* goes on.  When output() raises, the error handler (if any) is told; what
\* the handler raises leaves the loop over the strategies and the with-block.
Process_output(x) ==
    /\ thr[x].pc = "out"
    /\ IF thr[x].todo = <<>>
       THEN /\ strategies_lock' = "free"
            /\ thr' = [thr EXCEPT ![x].pc = IF x = "worker" THEN "loop" ELSE "fq",
                                  ![x].rec = None]
            /\ UNCHANGED <<out, ahist>>
       ELSE IF Head(thr[x].todo) \notin faulty
       THEN /\ out' = [out EXCEPT ![Head(thr[x].todo)] = Append(@, thr[x].rec)]
            /\ thr' = [thr EXCEPT ![x].todo = Tail(@)]
            /\ UNCHANGED <<strategies_lock, ahist>>
       ELSE /\ ahist' = [ahist EXCEPT !.reports[thr[x].rec] =
                            IF error_handler = "none" THEN @ ELSE @ + 1]
            /\ IF error_handler = "raising"
               THEN /\ strategies_lock' = "free"
                    /\ thr' = [thr EXCEPT ![x].pc = "err", ![x].todo = <<>>]
               ELSE /\ thr' = [thr EXCEPT ![x].todo = Tail(@)]
                    /\ UNCHANGED strategies_lock
            /\ UNCHANGED out
    /\ UNCHANGED <<queue, stop_event, flush_event, error_handler, faulty, caller>>
    /\ UNCHANGED handler_strategies
    /\ UNCHANGED outsideHandler

\* _process_queue / _flush_queue: except Exception as e: the error handler is
\* called with what _process_record let through.  Only a handler that raises
\* gets here, and it raises again: the thread ends with the record.
Process_except(x) ==
    /\ thr[x].pc = "err"
    /\ thr' = [thr EXCEPT ![x].pc = "exited", ![x].rec = None]
    /\ UNCHANGED <<queue, stop_event, flush_event, error_handler, faulty,
                   strategies_lock, out, caller, ahist>>
    /\ UNCHANGED handler_strategies
    /\ UNCHANGED outsideHandler

\* stop(): self._stop_event.set(); self._flush_event.set()
Stop_set ==
    /\ caller.pc = "idle"
    /\ ahist.stops < MaxStops
    /\ stop_event' = TRUE
    /\ flush_event' = TRUE
    /\ caller' = [caller EXCEPT !.pc = "join_worker"]
    /\ UNCHANGED <<queue, error_handler, faulty, strategies_lock, thr, out, ahist>>
    /\ UNCHANGED handler_strategies
    /\ UNCHANGED outsideHandler

\* stop(): if self._worker_thread.is_alive(): self._worker_thread.join(timeout=1.0)
\* The join ends when the thread has ended, or when the second is over.
Stop_join_worker ==
    /\ caller.pc = "join_worker"
    /\ caller' = [caller EXCEPT !.pc = "join_flush"]
    /\ ahist' = [ahist EXCEPT !.timedOut = @ \/ Alive("worker")]
    /\ UNCHANGED <<queue, stop_event, flush_event, error_handler, faulty, strategies_lock,
                   thr, out>>
    /\ UNCHANGED handler_strategies
    /\ UNCHANGED outsideHandler

\* stop(): if self._flush_thread.is_alive(): self._flush_thread.join(timeout=1.0);
\* then stop() returns.
Stop_join_flush ==
    /\ caller.pc = "join_flush"
    /\ caller' = [caller EXCEPT !.pc = "idle"]
    /\ ahist' = [ahist EXCEPT !.timedOut = @ \/ Alive("flush"), !.stops = @ + 1]
    /\ UNCHANGED <<queue, stop_event, flush_event, error_handler, faulty, strategies_lock,
                   thr, out>>
    /\ UNCHANGED handler_strategies
    /\ UNCHANGED outsideHandler

\* flush(): self._flush_event.set()
Flush_set ==
    /\ caller.pc = "idle"
    /\ ahist.flushes < MaxFlushes
    /\ flush_event' = TRUE
    /\ caller' = [caller EXCEPT !.pc = "flush_wait"]
    /\ ahist' = [ahist EXCEPT !.flushes = @ + 1, !.atFlush = ahist.accepted]
    /\ UNCHANGED <<queue, stop_event, error_handler, faulty, strategies_lock, thr, out>>
    /\ UNCHANGED handler_strategies
    /\ UNCHANGED outsideHandler

\* flush(): while not self._queue.empty(): time.sleep(0.01); then it returns.
Flush_return ==
    /\ caller.pc = "flush_wait"
    /\ queue = <<>>
    /\ caller' = [caller EXCEPT !.pc = "idle"]
    /\ UNCHANGED <<queue, stop_event, flush_event, error_handler, faulty, strategies_lock,
                   thr, out, ahist>>
    /\ UNCHANGED handler_strategies
    /\ UNCHANGED outsideHandler

\* AsyncLogger.update_config(config): self._async_handler.stop() begins:
\* the old handler's two events are set.
Update_config_stop ==
    /\ caller.pc = "idle"
    /\ ahist.updates < MaxUpdates
    /\ stop_event' = TRUE
    /\ flush_event' = TRUE
    /\ caller' = [caller EXCEPT !.pc = "uc_join_worker"]
    /\ UNCHANGED <<queue, error_handler, faulty, strategies_lock, handler_strategies, thr,
                   out, ahist>>
    /\ UNCHANGED outsideHandler

\* update_config, inside stop(): the two joins.  Each consumer needs less than
\* the join's second to finish the record it holds, so a join ends with its
\* thread.
Update_config_join(x) ==
    /\ caller.pc = IF x = "worker" THEN "uc_join_worker" ELSE "uc_join_flush"
    /\ ~Alive(x)
    /\ caller' = [caller EXCEPT !.pc = IF x = "worker" THEN "uc_join_flush" ELSE "uc_new"]
    /\ UNCHANGED <<queue, stop_event, flush_event, error_handler, faulty, strategies_lock,
                   handler_strategies, thr, out, ahist>>
    /\ UNCHANGED outsideHandler

\* update_config: self.config = config; self._async_handler = AsyncLogHandler(...):
\* a new queue, new events, two new threads, no strategies yet.  What the old
\* handler's queue still held goes with the old handler.
Update_config_new ==
    /\ caller.pc = "uc_new"
    /\ queue' = <<>>
    /\ stop_event' = FALSE
    /\ flush_event' = FALSE
    /\ strategies_lock' = "free"
    /\ handler_strategies' = <<>>
    /\ thr' = [x \in Pool |-> [pc |-> "loop", rec |-> None, todo |-> <<>>]]
    /\ caller' = [caller EXCEPT !.pc = "uc_add"]
    /\ UNCHANGED <<error_handler, faulty, out, ahist>>
    /\ UNCHANGED outsideHandler

\* update_config: self._initialize_strategies(): add_strategy(strategy) for the
\* next strategy of the config, under _strategies_lock; after the last one
\* update_config returns.
Update_config_add ==
    /\ caller.pc = "uc_add"
    /\ IF Len(handler_strategies) = Len(Strategies)
       THEN /\ caller' = [caller EXCEPT !.pc = "idle"]
            /\ ahist' = [ahist EXCEPT !.updates = @ + 1]
            /\ UNCHANGED handler_strategies
       ELSE /\ strategies_lock = "free"
            /\ handler_strategies' =
                   Append(handler_strategies, Strategies[Len(handler_strategies) + 1])
            /\ UNCHANGED <<caller, ahist>>
    /\ UNCHANGED <<queue, stop_event, flush_event, error_handler, faulty, strategies_lock,
                   thr, out>>
    /\ UNCHANGED outsideHandler

NextHandler ==
    \/ Enqueue
    \/ Worker_loop
    \/ Worker_get
    \/ Flush_loop
    \/ Flush_wait
    \/ Flush_check
    \/ Flush_queue
    \/ \E x \in Pool : Process_record(x)
    \/ \E x \in Pool : Process_output(x)
    \/ \E x \in Pool : Process_except(x)
    \/ Stop_set
    \/ Stop_join_worker
    \/ Stop_join_flush
    \/ Flush_set
    \/ Flush_return

\* ====================================================== ErrorHandlingManager
\* ErrorHandlingManager.handle_error and CompositeErrorHandler.handle_error:
\* "live" is src/src/logs/error_handling/error_handler.py, "fix" is
\* src/error_handler_fix.py (it adds the recursion depth counter).
MaxErrCalls == 3
MaxCeiling == 2

\* What a registered handler does: "ok" handles, "declines" has can_handle
\* return False, "raises" raises in handle_error, "can_raises" in can_handle.
HandlerKinds == {"ok", "declines", "raises", "can_raises"}

\* Objects that are not complete handlers: one without a can_handle method
\* and one without a handle_error method.
IncompleteKinds == {"no_can_handle", "no_handle_error"}

\* A handler whose handle_error calls handle_error of the same manager.
Reentering == "reenters"

\* The handlers whose use inside the try of CompositeErrorHandler.handle_error
\* raises: a missing method raises AttributeError when it is looked up.
RaisingKinds == {"raises", "can_raises"} \cup IncompleteKinds

\* The handler lists tried: one handler of each kind, and a failing handler
\* followed by a working one.
HandlerLists ==
    {<<k>> : k \in HandlerKinds} \cup {<<"raises", "ok">>, <<"can_raises", "ok">>}

\* What ErrorHandlingManager's steps leave alone.
outsideErr == <<mgrVars, lazyVars, asyncVars, metaVars, olVars, fbVars, groupVars,
    batchVars>>

\* ErrorHandlingManager.__init__ followed by add_handler for each of hs.
ErrConstructed(im, hs, ceiling) ==
    /\ eimpl = im
    /\ handlers = hs
    /\ max_recursion_depth = ceiling
    /\ recursion_depth = 0
    /\ error_count = 0
    /\ elocks = [l \in {"manager", "composite"} |-> None]
    /\ epc = [t \in Threads |-> "idle"]
    /\ etodo = [t \in Threads |-> <<>>]
    /\ eret = [t \in Threads |-> "none"]
    /\ ewrites = [t \in Threads |-> 0]
    /\ ecalls = MaxErrCalls
    /\ econsulted = [t \in Threads |-> <<>>]

\* A thread calls ErrorHandlingManager.handle_error(error, severity, category).
Err_call(t) ==
    /\ epc[t] = "idle"
    /\ ecalls > 0
    /\ ecalls' = ecalls - 1
    /\ epc' = [epc EXCEPT ![t] = IF eimpl = "fix" THEN "enter" ELSE "count"]
    /\ eret' = [eret EXCEPT ![t] = "none"]
    /\ ewrites' = [ewrites EXCEPT ![t] = 0]
    /\ econsulted' = [econsulted EXCEPT ![t] = <<>>]
    /\ UNCHANGED <<eimpl, handlers, max_recursion_depth, recursion_depth,
                   error_count, elocks, etodo>>
    /\ UNCHANGED outsideErr

\* fix: with self._lock: the depth is counted up; beyond the ceiling two lines
\* go to stderr, the depth is reset and the call returns.
Fix_Err_enter_unreset(t) ==
    /\ eimpl = "fix" /\ epc[t] = "enter"
    /\ elocks["manager"] = None
    /\ recursion_depth' = recursion_depth + 1
    /\ IF recursion_depth + 1 > max_recursion_depth
       THEN /\ ewrites' = [ewrites EXCEPT ![t] = @ + 2]
            /\ epc' = [epc EXCEPT ![t] = "idle"]
            /\ eret' = [eret EXCEPT ![t] = "ok"]
       ELSE /\ epc' = [epc EXCEPT ![t] = "count"]
            /\ UNCHANGED <<ewrites, eret>>
    /\ UNCHANGED <<eimpl, handlers, max_recursion_depth, error_count, elocks,
                   etodo, ecalls>>
    /\ UNCHANGED econsulted
    /\ UNCHANGED outsideErr

\* The ceiling test made on the depth before it is counted up.
Fix_Err_enter_late(t) ==
    /\ eimpl = "fix" /\ epc[t] = "enter"
    /\ elocks["manager"] = None
    /\ IF recursion_depth > max_recursion_depth
       THEN /\ ewrites' = [ewrites EXCEPT ![t] = @ + 2]
            /\ recursion_depth' = 0
            /\ epc' = [epc EXCEPT ![t] = "idle"]
            /\ eret' = [eret EXCEPT ![t] = "ok"]
       ELSE /\ recursion_depth' = recursion_depth + 1
            /\ epc' = [epc EXCEPT ![t] = "count"]
            /\ UNCHANGED <<ewrites, eret>>
    /\ UNCHANGED <<eimpl, handlers, max_recursion_depth, error_count, elocks,
                   etodo, ecalls>>
    /\ UNCHANGED econsulted
    /\ UNCHANGED outsideErr

Fix_Err_enter(t) ==
    /\ eimpl = "fix" /\ epc[t] = "enter"
    /\ elocks["manager"] = None
    /\ IF recursion_depth + 1 > max_recursion_depth
       THEN /\ ewrites' = [ewrites EXCEPT ![t] = @ + 2]
            /\ recursion_depth' = 0
            /\ epc' = [epc EXCEPT ![t] = "idle"]
            /\ eret' = [eret EXCEPT ![t] = "ok"]
       ELSE /\ recursion_depth' = recursion_depth + 1
            /\ epc' = [epc EXCEPT ![t] = "count"]
            /\ UNCHANGED <<ewrites, eret>>
    /\ UNCHANGED <<eimpl, handlers, max_recursion_depth, error_count, elocks,
                   etodo, ecalls>>
    /\ UNCHANGED econsulted
    /\ UNCHANGED outsideErr

\* The error context is built and, with self._lock, the error is counted.
Err_count(t) ==
    /\ epc[t] = "count"
    /\ elocks["manager"] = None
    /\ error_count' = error_count + 1
    /\ epc' = [epc EXCEPT ![t] = "comp"]
    /\ UNCHANGED <<eimpl, handlers, max_recursion_depth, recursion_depth, elocks,
                   etodo, eret, ewrites, ecalls>>
    /\ UNCHANGED econsulted
    /\ UNCHANGED outsideErr

\* The handlers whose can_handle returns True, so that their handle_error is
\* invoked.
InvokedKinds == {"ok", "raises", Reentering}

\* The position in self.handlers of the handler thread t's loop is at.
LoopIndex(t) == Len(handlers) - Len(etodo[t]) + 1

\* What one pass of the loop body invokes on the handler at position i.
Consulted(i) ==
    <<[h |-> i, call |-> "can_handle"]>> \o
    (IF handlers[i] \in InvokedKinds THEN <<[h |-> i, call |-> "handle_error"]>> ELSE <<>>)

\* CompositeErrorHandler.handle_error: with self._lock: for handler in
\* self.handlers:
Composite_lock(t) ==
    /\ epc[t] = "comp"
    /\ elocks["composite"] = None
    /\ elocks' = [elocks EXCEPT !["composite"] = t]
    /\ etodo' = [etodo EXCEPT ![t] = handlers]
    /\ epc' = [epc EXCEPT ![t] = "each"]
    /\ UNCHANGED <<eimpl, handlers, max_recursion_depth, recursion_depth,
                   error_count, eret, ewrites, ecalls>>
    /\ UNCHANGED econsulted
    /\ UNCHANGED outsideErr

\* The loop body with the try left out: what a handler raises leaves the
\* with-block and the call.
Composite_each_unwrapped(t) ==
    /\ epc[t] = "each"
    /\ etodo[t] # <<>> => Head(etodo[t]) # Reentering
    /\ IF etodo[t] = <<>>
       THEN /\ elocks' = [elocks EXCEPT !["composite"] = None]
            /\ epc' = [epc EXCEPT ![t] = IF eimpl = "fix" THEN "fin" ELSE "idle"]
            /\ eret' = [eret EXCEPT ![t] = IF eimpl = "fix" THEN @ ELSE "ok"]
            /\ UNCHANGED <<etodo, ewrites>>
       ELSE IF Head(etodo[t]) \in RaisingKinds
       THEN /\ elocks' = [elocks EXCEPT !["composite"] = None]
            /\ epc' = [epc EXCEPT ![t] = IF eimpl = "fix" THEN "fin" ELSE "idle"]
            /\ eret' = [eret EXCEPT ![t] = "raised"]
            /\ etodo' = [etodo EXCEPT ![t] = <<>>]
            /\ UNCHANGED ewrites
       ELSE /\ etodo' = [etodo EXCEPT ![t] = Tail(@)]
            /\ UNCHANGED <<elocks, epc, eret, ewrites>>
    /\ UNCHANGED <<eimpl, handlers, max_recursion_depth, recursion_depth,
                   error_count, ecalls>>
    /\ econsulted' = [econsulted EXCEPT ![t] =
           IF etodo[t] = <<>> THEN @ ELSE @ \o Consulted(LoopIndex(t))]
    /\ UNCHANGED outsideErr

\* The loop body without the can_handle test: handle_error is invoked on every
\* handler.
Composite_each_unasked(t) ==
    /\ epc[t] = "each"
    /\ etodo[t] # <<>> => Head(etodo[t]) # Reentering
    /\ IF etodo[t] = <<>>
       THEN /\ elocks' = [elocks EXCEPT !["composite"] = None]
            /\ epc' = [epc EXCEPT ![t] = IF eimpl = "fix" THEN "fin" ELSE "idle"]
            /\ eret' = [eret EXCEPT ![t] = IF eimpl = "fix" THEN @ ELSE "ok"]
            /\ UNCHANGED <<etodo, ewrites>>
       ELSE /\ etodo' = [etodo EXCEPT ![t] = Tail(@)]
            /\ ewrites' = [ewrites EXCEPT ![t] =
                   IF Head(etodo[t]) \in RaisingKinds THEN @ + 2 ELSE @]
            /\ UNCHANGED <<elocks, epc, eret>>
    /\ UNCHANGED <<eimpl, handlers, max_recursion_depth, recursion_depth,
                   error_count, ecalls>>
    /\ econsulted' = [econsulted EXCEPT ![t] =
           IF etodo[t] = <<>> THEN @
           ELSE @ \o <<[h |-> LoopIndex(t), call |-> "handle_error"]>>]
    /\ UNCHANGED outsideErr

\* try: if handler.can_handle(context): handler.handle_error(context)
\* except Exception: PrintErrorHandler().handle_error(CRITICAL context), which
\* prints the error line and the traceback to stderr.  After the last handler
\* the with-block ends.
Composite_each(t) ==
    /\ epc[t] = "each"
    /\ etodo[t] # <<>> => Head(etodo[t]) # Reentering
    /\ IF etodo[t] = <<>>
       THEN /\ elocks' = [elocks EXCEPT !["composite"] = None]
            /\ epc' = [epc EXCEPT ![t] = IF eimpl = "fix" THEN "fin" ELSE "idle"]
            /\ eret' = [eret EXCEPT ![t] = IF eimpl = "fix" THEN @ ELSE "ok"]
            /\ UNCHANGED <<etodo, ewrites>>
       ELSE /\ etodo' = [etodo EXCEPT ![t] = Tail(@)]
            /\ ewrites' = [ewrites EXCEPT ![t] =
                   IF Head(etodo[t]) \in RaisingKinds THEN @ + 2 ELSE @]
            /\ UNCHANGED <<elocks, epc, eret>>
    /\ UNCHANGED <<eimpl, handlers, max_recursion_depth, recursion_depth,
                   error_count, ecalls>>
    /\ econsulted' = [econsulted EXCEPT ![t] =
           IF etodo[t] = <<>> THEN @ ELSE @ \o Consulted(LoopIndex(t))]
    /\ UNCHANGED outsideErr

\* The finally block counting the depth down without the test for negatives.
Fix_Err_finally_unclamped(t) ==
    /\ eimpl = "fix" /\ epc[t] = "fin"
    /\ elocks["manager"] = None
    /\ recursion_depth' = recursion_depth - 1
    /\ epc' = [epc EXCEPT ![t] = "idle"]
    /\ eret' = [eret EXCEPT ![t] = IF @ = "raised" THEN "raised" ELSE "ok"]
    /\ UNCHANGED <<eimpl, handlers, max_recursion_depth, error_count, elocks,
                   etodo, ewrites, ecalls>>
    /\ UNCHANGED econsulted
    /\ UNCHANGED outsideErr

\* fix: finally: with self._lock: the depth is counted down, not below 0; the
\* handling time is recorded; the call ends as the try-block did.
Fix_Err_finally(t) ==
    /\ eimpl = "fix" /\ epc[t] = "fin"
    /\ elocks["manager"] = None
    /\ recursion_depth' = IF recursion_depth - 1 < 0 THEN 0 ELSE recursion_depth - 1
    /\ epc' = [epc EXCEPT ![t] = "idle"]
    /\ eret' = [eret EXCEPT ![t] = IF @ = "raised" THEN "raised" ELSE "ok"]
    /\ UNCHANGED <<eimpl, handlers, max_recursion_depth, error_count, elocks,
                   etodo, ewrites, ecalls>>
    /\ UNCHANGED econsulted
    /\ UNCHANGED outsideErr

\* The loop body for a handler that calls manager.handle_error from inside its
\* own handle_error: the nested call starts on the same thread, which still
\* holds the composite's lock.  fix: the depth is counted up under the
\* manager's lock; beyond the ceiling the nested call writes its two lines,
\* resets the depth and returns, and the loop goes on.  Otherwise the nested
\* call goes on to count the error and to CompositeErrorHandler.handle_error.
Handler_reenters(t) ==
    /\ epc[t] = "each"
    /\ etodo[t] # <<>> /\ Head(etodo[t]) = Reentering
    /\ elocks["manager"] = None
    /\ IF eimpl = "fix" /\ recursion_depth + 1 > max_recursion_depth
       THEN /\ ewrites' = [ewrites EXCEPT ![t] = @ + 2]
            /\ recursion_depth' = 0
            /\ etodo' = [etodo EXCEPT ![t] = Tail(@)]
            /\ UNCHANGED epc
       ELSE /\ recursion_depth' = IF eimpl = "fix" THEN recursion_depth + 1
                                  ELSE recursion_depth
            /\ epc' = [epc EXCEPT ![t] = "count"]
            /\ UNCHANGED <<ewrites, etodo>>
    /\ econsulted' = [econsulted EXCEPT ![t] = @ \o Consulted(LoopIndex(t))]
    /\ UNCHANGED <<eimpl, handlers, max_recursion_depth, error_count, elocks,
                   eret, ecalls>>
    /\ UNCHANGED outsideErr

\* add_handler(handler).  fix: _validate_handler raises TypeError for an
\* object without a callable handle_error or can_handle, before the lock is
\* taken; then, with self._lock, the handler is appended unless it is in the
\* list (the limit of 50 handlers is out of reach here).  live: no validation.
Add_handler(t) ==
    /\ epc[t] = "idle"
    /\ ecalls > 0
    /\ ecalls' = ecalls - 1
    /\ \E h \in HandlerKinds \cup IncompleteKinds :
        IF eimpl = "fix" /\ h \in IncompleteKinds
        THEN /\ eret' = [eret EXCEPT ![t] = "TypeError"]
             /\ UNCHANGED handlers
        ELSE /\ elocks["composite"] = None
             /\ handlers' = IF \E i \in DOMAIN handlers : handlers[i] = h
                            THEN handlers ELSE Append(handlers, h)
             /\ eret' = [eret EXCEPT ![t] = "added"]
    /\ ewrites' = [ewrites EXCEPT ![t] = 0]
    /\ UNCHANGED <<eimpl, max_recursion_depth, recursion_depth, error_count,
                   elocks, epc, etodo>>
    /\ UNCHANGED econsulted
    /\ UNCHANGED outsideErr

ErrStep(t) ==
    \/ Fix_Err_enter(t)
    \/ Err_count(t)
    \/ Composite_lock(t)
    \/ Composite_each(t)
    \/ Fix_Err_finally(t)

NextErr ==
    \/ \E t \in Threads : Err_call(t)
    \/ \E t \in Threads : ErrStep(t)

\* Errors are handled with a re-entering handler registered.
NextRec ==
    \/ NextErr
    \/ \E t \in Threads : Handler_reenters(t)

\* Handlers are registered while errors are handled.
NextReg ==
    \/ NextErr
    \/ \E t \in Threads : Add_handler(t)

\* ========================================================== LogManagerMeta
\* LogManagerMeta.__call__ (the same text in log_manager.py and in
\* log_manager_final_fix.py): threads evaluating LogManager().

MaxCtorCalls == 4
CThreads == {1, 2, 3}

outsideMeta == <<mgrVars, lazyVars, asyncVars, errVars, olVars, fbVars, groupVars,
    batchVars>>

\* The class attributes after the class statement: _instance = None and a
\* free _lock; no thread is inside LogManager().
ClassLoaded ==
    /\ cls_instance = None
    /\ cls_lock = None
    /\ objects = 0
    /\ init_runs = 0
    /\ mpc = [t \in CThreads |-> "idle"]
    /\ mnew = [t \in CThreads |-> None]
    /\ got = [t \in CThreads |-> None]
    /\ sawNone = {}
    /\ mcalls = MaxCtorCalls

\* A thread evaluates LogManager().
Meta_call(t) ==
    /\ mpc[t] = "idle"
    /\ mcalls > 0
    /\ mcalls' = mcalls - 1
    /\ mpc' = [mpc EXCEPT ![t] = "chk"]
    /\ got' = [got EXCEPT ![t] = None]
    /\ UNCHANGED <<cls_instance, cls_lock, objects, init_runs, mnew, sawNone>>
    /\ UNCHANGED outsideMeta

\* if cls._instance is None: the test outside the lock.
Meta_check(t) ==
    /\ mpc[t] = "chk"
    /\ IF cls_instance = None
       THEN /\ mpc' = [mpc EXCEPT ![t] = "lock"]
            /\ sawNone' = sawNone \cup {t}
       ELSE /\ mpc' = [mpc EXCEPT ![t] = "ret"]
            /\ UNCHANGED sawNone
    /\ UNCHANGED <<cls_instance, cls_lock, objects, init_runs, mnew, got, mcalls>>
    /\ UNCHANGED outsideMeta

\* The locked part entered without testing _instance again.
Meta_lock_untested(t) ==
    /\ mpc[t] = "lock"
    /\ cls_lock = None
    /\ cls_lock' = t
    /\ mpc' = [mpc EXCEPT ![t] = "new"]
    /\ UNCHANGED <<cls_instance, objects, init_runs, mnew, got, sawNone, mcalls>>
    /\ UNCHANGED outsideMeta

\* with cls._lock: if cls._instance is None: the test under the lock; when
\* an instance is there the with-block ends.
Meta_lock(t) ==
    /\ mpc[t] = "lock"
    /\ cls_lock = None
    /\ IF cls_instance = None
       THEN /\ cls_lock' = t
            /\ mpc' = [mpc EXCEPT ![t] = "new"]
       ELSE /\ mpc' = [mpc EXCEPT ![t] = "ret"]
            /\ UNCHANGED cls_lock
    /\ UNCHANGED <<cls_instance, objects, init_runs, mnew, got, sawNone, mcalls>>
    /\ UNCHANGED outsideMeta

\* super().__call__(*args, **kwargs): a new object, on which __init__ runs
\* its body (the new object has no _initialized attribute yet).
Meta_construct(t) ==
    /\ mpc[t] = "new"
    /\ objects' = objects + 1
    /\ init_runs' = init_runs + 1
    /\ mnew' = [mnew EXCEPT ![t] = objects + 1]
    /\ mpc' = [mpc EXCEPT ![t] = "assign"]
    /\ UNCHANGED <<cls_instance, cls_lock, got, sawNone, mcalls>>
    /\ UNCHANGED outsideMeta

\* cls._instance = <the new object>, then the with-block ends.
Meta_assign(t) ==
    /\ mpc[t] = "assign"
    /\ cls_instance' = mnew[t]
    /\ cls_lock' = None
    /\ mpc' = [mpc EXCEPT ![t] = "ret"]
    /\ UNCHANGED <<objects, init_runs, mnew, got, sawNone, mcalls>>
    /\ UNCHANGED outsideMeta

\* return cls._instance
Meta_return(t) ==
    /\ mpc[t] = "ret"
    /\ got' = [got EXCEPT ![t] = cls_instance]
    /\ mpc' = [mpc EXCEPT ![t] = "idle"]
    /\ UNCHANGED <<cls_instance, cls_lock, objects, init_runs, mnew, sawNone, mcalls>>
    /\ UNCHANGED outsideMeta

NextMeta ==
    \E t \in CThreads :
        \/ Meta_call(t)
        \/ Meta_check(t)
        \/ Meta_lock(t)
        \/ Meta_construct(t)
        \/ Meta_assign(t)
        \/ Meta_return(t)

\* ======================================================== ObservableLogger
\* ObservableLogger.update_config, shutdown and log
\* (src/src/logs/loggers/observable_logger.py) with the strategy objects of
\* AbstractLogOutputStrategy (src/src/logs/core/abstracts.py).
MaxObservableCalls == 4

LogConfigs == {1, 2, 3}
StrategyObjects == {1, 2, 3}

outsideObservable == <<mgrVars, lazyVars, asyncVars, errVars, metaVars, fbVars, groupVars,
    batchVars>>

\* LogConfigData.output_strategies of each config object; two configs share
\* strategy object 2.
output_strategies(c) ==
    CASE c = 1 -> <<1, 2>>
      [] c = 2 -> <<2, 3>>
      [] c = 3 -> <<3>>

\* ObservableLogger.__init__(name, c): the strategies of c, none closed.
ObservableConstructed(c) ==
    /\ logger_config = c
    /\ strategies = output_strategies(c)
    /\ closed = {}
    /\ emitted = [x \in StrategyObjects |-> 0]
    /\ dropped = 0
    /\ last_call = "none"
    /\ ocalls = MaxObservableCalls

\* The strategy objects in a list.
Range(q) == {q[i] : i \in DOMAIN q}

\* update_config(c): shutdown() flushes and closes every strategy held; then
\* self.config = c, the list is cleared and filled again from
\* c.get_output_strategies(), a copy of the list holding the same objects.
Observable_update_config ==
    /\ ocalls > 0
    /\ ocalls' = ocalls - 1
    /\ \E c \in LogConfigs :
        /\ closed' = closed \cup Range(strategies)
        /\ logger_config' = c
        /\ strategies' = output_strategies(c)
    /\ last_call' = "update_config"
    /\ UNCHANGED <<emitted, dropped>>
    /\ UNCHANGED outsideObservable

\* shutdown(): flush, then strategy.close() for every strategy held.
Observable_shutdown ==
    /\ ocalls > 0
    /\ ocalls' = ocalls - 1
    /\ closed' = closed \cup Range(strategies)
    /\ last_call' = "shutdown"
    /\ UNCHANGED <<logger_config, strategies, emitted, dropped>>
    /\ UNCHANGED outsideObservable

\* log() of an enabled record: _output_with_strategies calls
\* strategy.output(record) for each strategy; a closed strategy raises
\* RuntimeError in _ensure_not_closed, which is swallowed.
Observable_log ==
    /\ ocalls > 0
    /\ ocalls' = ocalls - 1
    /\ emitted' = [x \in StrategyObjects |->
            IF x \in Range(strategies) \ closed THEN emitted[x] + 1 ELSE emitted[x]]
    /\ dropped' = dropped + Cardinality(Range(strategies) \cap closed)
    /\ last_call' = "log"
    /\ UNCHANGED <<logger_config, strategies, closed>>
    /\ UNCHANGED outsideObservable

NextObservable ==
    \/ Observable_update_config
    \/ Observable_shutdown
    \/ Observable_log

\* ==================================================== FallbackErrorHandler
\* FallbackErrorHandler.handle_error with a custom strategy or with
\* FallbackStrategy.log_fallback as its strategy: "live" is
\* src/src/logs/error_handling/error_handler.py, "fix" is
\* src/error_handler_fix.py.
MaxFallbackCalls == 2

\* The steps a fallback chain can attempt.
FallbackSteps == {"custom", "log_to_file", "print_to_stderr", "raw_stderr"}

outsideFallback == <<mgrVars, lazyVars, asyncVars, errVars, metaVars, olVars, groupVars,
    batchVars>>

\* FallbackErrorHandler.__init__(fallback_strategy); bad: the steps that raise.
FallbackConstructed(im, strategy, bad) ==
    /\ fimpl = im
    /\ fallback_strategy = strategy
    /\ fraising = bad
    /\ fpc = "idle"
    /\ fsteps = <<>>
    /\ fret = "none"
    /\ fcalls = MaxFallbackCalls

\* The call ends: it returns, or what the step raised leaves it.
FallbackEnds(how) ==
    /\ fpc' = "idle"
    /\ fret' = how

\* handle_error(context) is called.
Fallback_call ==
    /\ fpc = "idle"
    /\ fcalls > 0
    /\ fcalls' = fcalls - 1
    /\ fpc' = IF fallback_strategy = "custom" THEN "strategy" ELSE "lf_file"
    /\ fsteps' = <<>>
    /\ fret' = "none"
    /\ UNCHANGED <<fimpl, fallback_strategy, fraising>>
    /\ UNCHANGED outsideFallback

\* try: self.fallback_strategy(context), a custom strategy.
Fallback_custom ==
    /\ fpc = "strategy"
    /\ fsteps' = Append(fsteps, "custom")
    /\ IF "custom" \in fraising
       THEN fpc' = "print" /\ UNCHANGED fret
       ELSE FallbackEnds("ok")
    /\ UNCHANGED <<fimpl, fallback_strategy, fraising, fcalls>>
    /\ UNCHANGED outsideFallback

\* FallbackStrategy.log_fallback as the strategy: try: the entry is written to
\* logs/error.log.
Log_fallback_file ==
    /\ fpc = "lf_file"
    /\ fsteps' = Append(fsteps, "log_to_file")
    /\ IF "log_to_file" \in fraising
       THEN fpc' = "lf_print" /\ UNCHANGED fret
       ELSE FallbackEnds("ok")
    /\ UNCHANGED <<fimpl, fallback_strategy, fraising, fcalls>>
    /\ UNCHANGED outsideFallback

\* log_fallback: except Exception: try: FallbackStrategy.print_fallback(context).
Log_fallback_print ==
    /\ fpc = "lf_print"
    /\ fsteps' = Append(fsteps, "print_to_stderr")
    /\ IF "print_to_stderr" \in fraising
       THEN fpc' = "lf_raw" /\ UNCHANGED fret
       ELSE FallbackEnds("ok")
    /\ UNCHANGED <<fimpl, fallback_strategy, fraising, fcalls>>
    /\ UNCHANGED outsideFallback

\* log_fallback: the inner except: print(..., file=sys.stderr).  What it raises
\* leaves log_fallback and reaches the except of FallbackErrorHandler.
Log_fallback_raw ==
    /\ fpc = "lf_raw"
    /\ fsteps' = Append(fsteps, "raw_stderr")
    /\ IF "raw_stderr" \in fraising
       THEN fpc' = "print" /\ UNCHANGED fret
       ELSE FallbackEnds("ok")
    /\ UNCHANGED <<fimpl, fallback_strategy, fraising, fcalls>>
    /\ UNCHANGED outsideFallback

\* except Exception: PrintErrorHandler().handle_error(CRITICAL context); the
\* fixed module puts this in a try of its own.
Fallback_print ==
    /\ fpc = "print"
    /\ fsteps' = Append(fsteps, "print_to_stderr")
    /\ IF "print_to_stderr" \notin fraising THEN FallbackEnds("ok")
       ELSE IF fimpl = "fix" THEN fpc' = "raw" /\ UNCHANGED fret
       ELSE FallbackEnds("raised")
    /\ UNCHANGED <<fimpl, fallback_strategy, fraising, fcalls>>
    /\ UNCHANGED outsideFallback

\* fix: except Exception as fallback_error: print(..., file=sys.stderr).
Fallback_raw ==
    /\ fimpl = "fix" /\ fpc = "raw"
    /\ fsteps' = Append(fsteps, "raw_stderr")
    /\ IF "raw_stderr" \in fraising
       THEN FallbackEnds("raised")
       ELSE FallbackEnds("ok")
    /\ UNCHANGED <<fimpl, fallback_strategy, fraising, fcalls>>
    /\ UNCHANGED outsideFallback

NextFallback ==
    \/ Fallback_call
    \/ Fallback_custom
    \/ Log_fallback_file
    \/ Log_fallback_print
    \/ Log_fallback_raw
    \/ Fallback_print
    \/ Fallback_raw

\* ======================================================= loggers of one config
\* The ObservableLoggers a LogManager builds from its one config object
\* (src/src/logs/singleton/log_manager.py get_logger and remove_logger,
\* src/src/logs/loggers/observable_logger.py, src/src/logs/config/log_config.py).
MaxGroupCalls == 4

GroupNames == {Root, "a", "b"}

outsideGroup == <<mgrVars, lazyVars, asyncVars, errVars, metaVars, olVars, fbVars,
    batchVars>>

\* LogManager.initialize(c): the root logger is built from c; no strategy
\* object is closed.
GroupConstructed(c) ==
    /\ gconfig = c
    /\ registry = {Root}
    /\ gclosed = {}
    /\ gout = [n \in GroupNames |-> 0]
    /\ glost = [n \in GroupNames |-> 0]
    /\ gcalls = MaxGroupCalls

\* ObservableLogger._strategies of a logger built from the manager's config:
\* _initialize_strategies appends what config.get_output_strategies() returns,
\* a copy of the list that holds the config's own strategy objects.
logger_strategies == output_strategies(gconfig)

\* get_logger(name) for a new name: create_logger(name, self._config).
Group_get_logger(n) ==
    /\ gcalls > 0
    /\ n \in GroupNames \ registry
    /\ gcalls' = gcalls - 1
    /\ registry' = registry \cup {n}
    /\ UNCHANGED <<gconfig, gclosed, gout, glost>>
    /\ UNCHANGED outsideGroup

\* remove_logger(name): the logger is popped and logger.shutdown() closes every
\* strategy in its list.
Group_remove_logger(n) ==
    /\ gcalls > 0
    /\ n \in registry \ {Root}
    /\ gcalls' = gcalls - 1
    /\ registry' = registry \ {n}
    /\ gclosed' = gclosed \cup Range(logger_strategies)
    /\ UNCHANGED <<gconfig, gout, glost>>
    /\ UNCHANGED outsideGroup

\* log() of an enabled record on logger n: strategy.output(record) for each of
\* its strategies; a closed one raises in _ensure_not_closed, which is swallowed.
Group_log(n) ==
    /\ gcalls > 0
    /\ n \in registry
    /\ gcalls' = gcalls - 1
    /\ gout' = [gout EXCEPT ![n] = @ + Cardinality(Range(logger_strategies) \ gclosed)]
    /\ glost' = [glost EXCEPT ![n] = @ + Cardinality(Range(logger_strategies) \cap gclosed)]
    /\ UNCHANGED <<gconfig, registry, gclosed>>
    /\ UNCHANGED outsideGroup

NextGroup ==
    \/ \E n \in GroupNames : Group_get_logger(n)
    \/ \E n \in GroupNames : Group_remove_logger(n)
    \/ \E n \in GroupNames : Group_log(n)

\* ============================================================ BatchProcessor
\* BatchProcessor (src/src/logs/performance/performance_optimization.py): two
\* producer threads calling add_entry, the background timer thread, and one
\* thread calling flush() and stop().  The processor callback returns.
MaxEntries == 3
MaxBatchCalls == 2
BatchSize == 2

Producers == {"p1", "p2"}
BatchThreads == Producers \cup {"timer", "caller"}

outsideBatch == <<mgrVars, lazyVars, asyncVars, errVars, metaVars, olVars, fbVars, groupVars>>

\* BatchProcessor.__init__(batch_size, max_wait_time, processor): an empty
\* batch; the timer thread is started.
BatchConstructed ==
    /\ batch = <<>>
    /\ batch_lock = "none"
    /\ batch_stop = FALSE
    /\ bpc = [x \in BatchThreads |-> IF x = "timer" THEN "loop" ELSE "idle"]
    /\ bop = "none"
    /\ bentry = [x \in Producers |-> None]
    /\ blocal = [x \in BatchThreads |-> <<>>]
    /\ delivered = [e \in 1..MaxEntries |-> 0]
    /\ badded = 0
    /\ bcalls = MaxBatchCalls

\* _process_batch_now is over for thread x: a with-block it was called from
\* ends, and the thread goes on with what called it.
PbnOver(x) ==
    /\ batch_lock' = IF batch_lock = x THEN "none" ELSE batch_lock
    /\ bpc' = [bpc EXCEPT ![x] =
                 IF x = "timer" THEN "loop"
                 ELSE IF x = "caller" /\ bop = "stop" THEN "join"
                 ELSE "idle"]

\* A producer calls add_entry(entry).
Batch_add_call(x) ==
    /\ x \in Producers /\ bpc[x] = "idle"
    /\ badded < MaxEntries
    /\ badded' = badded + 1
    /\ bentry' = [bentry EXCEPT ![x] = badded + 1]
    /\ bpc' = [bpc EXCEPT ![x] = "add_lock"]
    /\ UNCHANGED <<batch, batch_lock, batch_stop, bop, blocal, delivered, bcalls>>
    /\ UNCHANGED outsideBatch

\* add_entry: with self._lock: self._batch.append(entry); a full batch is
\* processed at once, inside the with-block.
Batch_add_append(x) ==
    /\ x \in Producers /\ bpc[x] = "add_lock"
    /\ batch_lock = "none"
    /\ batch' = Append(batch, bentry[x])
    /\ IF Len(batch) + 1 >= BatchSize
       THEN batch_lock' = x /\ bpc' = [bpc EXCEPT ![x] = "pbn_chk"]
       ELSE batch_lock' = "none" /\ bpc' = [bpc EXCEPT ![x] = "idle"]
    /\ UNCHANGED <<batch_stop, bop, bentry, blocal, delivered, badded, bcalls>>
    /\ UNCHANGED outsideBatch

\* _process_batch: while not self._stop_event.is_set(): time.sleep(0.1)
Batch_timer_loop ==
    /\ bpc["timer"] = "loop"
    /\ bpc' = [bpc EXCEPT !["timer"] = IF batch_stop THEN "exited" ELSE "wake"]
    /\ UNCHANGED <<batch, batch_lock, batch_stop, bop, bentry, blocal, delivered, badded,
                   bcalls>>
    /\ UNCHANGED outsideBatch

\* _process_batch: with self._lock: a batch that is full, or not empty and
\* older than max_wait_time, is processed.
Batch_timer_check ==
    /\ bpc["timer"] = "wake"
    /\ batch_lock = "none"
    /\ \E elapsed \in BOOLEAN :
        IF Len(batch) > 0 /\ (Len(batch) >= BatchSize \/ elapsed)
        THEN batch_lock' = "timer" /\ bpc' = [bpc EXCEPT !["timer"] = "pbn_chk"]
        ELSE batch_lock' = "none" /\ bpc' = [bpc EXCEPT !["timer"] = "loop"]
    /\ UNCHANGED <<batch, batch_stop, bop, bentry, blocal, delivered, badded, bcalls>>
    /\ UNCHANGED outsideBatch

\* _process_batch_now: if not self._batch: return
Pbn_check(x) ==
    /\ bpc[x] = "pbn_chk"
    /\ IF batch = <<>>
       THEN PbnOver(x)
       ELSE bpc' = [bpc EXCEPT ![x] = "pbn_copy"] /\ UNCHANGED batch_lock
    /\ UNCHANGED <<batch, batch_stop, bop, bentry, blocal, delivered, badded, bcalls>>
    /\ UNCHANGED outsideBatch

\* _process_batch_now: batch = self._batch.copy()
Pbn_copy(x) ==
    /\ bpc[x] = "pbn_copy"
    /\ blocal' = [blocal EXCEPT ![x] = batch]
    /\ bpc' = [bpc EXCEPT ![x] = "pbn_clear"]
    /\ UNCHANGED <<batch, batch_lock, batch_stop, bop, bentry, delivered, badded, bcalls>>
    /\ UNCHANGED outsideBatch

\* _process_batch_now: self._batch.clear(); self._last_process_time = time.time()
Pbn_clear(x) ==
    /\ bpc[x] = "pbn_clear"
    /\ batch' = <<>>
    /\ bpc' = [bpc EXCEPT ![x] = "pbn_proc"]
    /\ UNCHANGED <<batch_lock, batch_stop, bop, bentry, blocal, delivered, badded, bcalls>>
    /\ UNCHANGED outsideBatch

\* _process_batch_now: self.processor(batch)
Pbn_process(x) ==
    /\ bpc[x] = "pbn_proc"
    /\ delivered' = [e \in 1..MaxEntries |->
                        IF InSeq(e, blocal[x]) THEN delivered[e] + 1 ELSE delivered[e]]
    /\ blocal' = [blocal EXCEPT ![x] = <<>>]
    /\ PbnOver(x)
    /\ UNCHANGED <<batch, batch_stop, bop, bentry, badded, bcalls>>
    /\ UNCHANGED outsideBatch

\* flush(): self._process_batch_now(), with no lock taken.
Batch_flush ==
    /\ bpc["caller"] = "idle"
    /\ bcalls > 0
    /\ bcalls' = bcalls - 1
    /\ bop' = "flush"
    /\ bpc' = [bpc EXCEPT !["caller"] = "pbn_chk"]
    /\ UNCHANGED <<batch, batch_lock, batch_stop, bentry, blocal, delivered, badded>>
    /\ UNCHANGED outsideBatch

\* stop(): self._stop_event.set(); self.flush()
Batch_stop ==
    /\ bpc["caller"] = "idle"
    /\ bcalls > 0
    /\ bcalls' = bcalls - 1
    /\ batch_stop' = TRUE
    /\ bop' = "stop"
    /\ bpc' = [bpc EXCEPT !["caller"] = "pbn_chk"]
    /\ UNCHANGED <<batch, batch_lock, bentry, blocal, delivered, badded>>
    /\ UNCHANGED outsideBatch

\* stop(): if self._worker_thread.is_alive(): self._worker_thread.join(timeout=1.0)
Batch_join ==
    /\ bpc["caller"] = "join"
    /\ bpc' = [bpc EXCEPT !["caller"] = "idle"]
    /\ UNCHANGED <<batch, batch_lock, batch_stop, bop, bentry, blocal, delivered, badded,
                   bcalls>>
    /\ UNCHANGED outsideBatch

NextBatch ==
    \/ \E x \in Producers : Batch_add_call(x)
    \/ \E x \in Producers : Batch_add_append(x)
    \/ Batch_timer_loop
    \/ Batch_timer_check
    \/ \E x \in BatchThreads : Pbn_check(x)
    \/ \E x \in BatchThreads : Pbn_copy(x)
    \/ \E x \in BatchThreads : Pbn_clear(x)
    \/ \E x \in BatchThreads : Pbn_process(x)
    \/ Batch_flush
    \/ Batch_stop
    \/ Batch_join

\* ------------------------------------------------------- the specification
AllKinds == {"initialize", "get_logger", "update_config", "remove_logger", "shutdown"}

NextMgr ==
    \/ \E t \in Threads : Begin(t, AllKinds)
    \/ \E t \in Threads : Live_initialize_check(t)
    \/ \E t \in Threads : Live_initialize_lock(t)
    \/ \E t \in Threads : Live_initialize_build(t)
    \/ \E t \in Threads : Live_initialize_flag(t)
    \/ \E t \in Threads : Live_get_logger_check(t)
    \/ \E t \in Threads : Live_get_logger_root(t)
    \/ \E t \in Threads : Live_get_logger_body(t)
    \/ \E t \in Threads : Live_update_config_check(t)
    \/ \E t \in Threads : Live_update_config_lock(t)
    \/ \E t \in Threads : Live_update_config_root(t)
    \/ \E t \in Threads : Live_update_config_loggers_lock(t)
    \/ \E t \in Threads : Live_update_config_each(t)
    \/ \E t \in Threads : Live_remove_logger_check(t)
    \/ \E t \in Threads : Live_remove_logger_lock(t)
    \/ \E t \in Threads : Live_remove_logger_shutdown(t)
    \/ \E t \in Threads : Live_shutdown_check(t)
    \/ \E t \in Threads : Live_shutdown_lock(t)
    \/ \E t \in Threads : Live_shutdown_each(t)
    \/ \E t \in Threads : Live_shutdown_root_check(t)
    \/ \E t \in Threads : Live_shutdown_root_call(t)
    \/ \E t \in Threads : Live_shutdown_root_clear(t)
    \/ \E t \in Threads : Live_shutdown_flag(t)
    \/ \E t \in Threads : Fix_initialize_check(t)
    \/ \E t \in Threads : Fix_initialize_lock(t)
    \/ \E t \in Threads : Fix_initialize_build(t)
    \/ \E t \in Threads : Fix_initialize_publish(t)
    \/ \E t \in Threads : Fix_initialize_flag(t)
    \/ \E t \in Threads : Fix_get_logger_check(t)
    \/ \E t \in Threads : Fix_get_logger_root(t)
    \/ \E t \in Threads : Fix_get_logger_read(t)
    \/ \E t \in Threads : Fix_get_logger_body(t)
    \/ \E t \in Threads : Fix_get_logger_publish(t)
    \/ \E t \in Threads : Fix_update_config_check(t)
    \/ \E t \in Threads : Fix_update_config_set(t)
    \/ \E t \in Threads : Fix_update_config_root(t)
    \/ \E t \in Threads : Fix_update_config_spawn(t)
    \/ \E i \in DOMAIN bg : Fix_update_loggers(i)
    \/ \E t \in Threads : Fix_remove_logger_check(t)
    \/ \E t \in Threads : Fix_remove_logger_lock(t)
    \/ \E t \in Threads : Fix_remove_logger_shutdown(t)
    \/ \E t \in Threads : Fix_shutdown_check(t)
    \/ \E t \in Threads : Fix_shutdown_lock(t)
    \/ \E t \in Threads : Fix_shutdown_each(t)
    \/ \E t \in Threads : Fix_shutdown_root(t)
    \/ \E t \in Threads : Fix_shutdown_flag(t)

InitMgr ==
    /\ \E im \in {"live", "fix"} : MgrConstructed(im)
    /\ LoggerConstructed({})
    /\ HandlerConstructed("none", {})
    /\ ErrConstructed("live", <<>>, 0)
    /\ ClassLoaded
    /\ ObservableConstructed(1)
    /\ FallbackConstructed("live", "custom", {})
    /\ GroupConstructed(1)
    /\ BatchConstructed

SpecMgr == InitMgr /\ [][NextMgr]_vars

\* One AbstractLogger used by several threads.
InitLogger ==
    /\ MgrConstructed("live")
    /\ LoggerConstructed({})
    /\ HandlerConstructed("none", {})
    /\ ErrConstructed("live", <<>>, 0)
    /\ ClassLoaded
    /\ ObservableConstructed(1)
    /\ FallbackConstructed("live", "custom", {})
    /\ GroupConstructed(1)
    /\ BatchConstructed

SpecLogger == InitLogger /\ [][NextLogger]_vars

\* One logger whose observer 1 calls add_observer or remove_observer on it
\* from on_log_record.
NextNotify ==
    \/ NextLogger
    \/ \E t \in LThreads : Observer_reenters(t)
    \/ \E t \in LThreads : Observer_returns(t)

InitNotify ==
    /\ MgrConstructed("live")
    /\ LoggerConstructed({1})
    /\ HandlerConstructed("none", {})
    /\ ErrConstructed("live", <<>>, 0)
    /\ ClassLoaded
    /\ ObservableConstructed(1)
    /\ FallbackConstructed("live", "custom", {})
    /\ GroupConstructed(1)
    /\ BatchConstructed

\* The steps of a call that has started; every thread keeps running.
NotifyStep(t) ==
    \/ Observer_lock_is_none(t) \/ Observer_lock_create(t)
    \/ Observer_with_eval(t) \/ Observer_with_acquire(t)
    \/ Observer_test(t) \/ Observer_apply(t)
    \/ Notify_each(t) \/ Output_with_strategies(t)
    \/ Observer_reenters(t) \/ Observer_returns(t)

SpecNotify == InitNotify /\ [][NextNotify]_vars /\ \A t \in LThreads : WF_vars(NotifyStep(t))

\* One AsyncLogHandler, built with any of the three kinds of error handler.
InitHandler ==
    /\ MgrConstructed("live")
    /\ LoggerConstructed({})
    /\ \E eh \in {"none", "silent", "raising"}, bad \in {{}, {2}} : HandlerConstructed(eh, bad)
    /\ ErrConstructed("live", <<>>, 0)
    /\ ClassLoaded
    /\ ObservableConstructed(1)
    /\ FallbackConstructed("live", "custom", {})
    /\ GroupConstructed(1)
    /\ BatchConstructed

SpecHandler == InitHandler /\ [][NextHandler]_vars

InitErr ==
    /\ MgrConstructed("live")
    /\ LoggerConstructed({})
    /\ HandlerConstructed("none", {})
    /\ \/ \E hs \in HandlerLists : ErrConstructed("live", hs, 0)
       \/ \E hs \in HandlerLists, c \in 0..MaxCeiling : ErrConstructed("fix", hs, c)
    /\ ClassLoaded
    /\ ObservableConstructed(1)
    /\ FallbackConstructed("live", "custom", {})
    /\ GroupConstructed(1)
    /\ BatchConstructed

\* A manager of either module with a re-entering handler in its list; every
\* thread inside a call keeps running when it can.
InitRec ==
    /\ MgrConstructed("live")
    /\ LoggerConstructed({})
    /\ HandlerConstructed("none", {})
    /\ \E hs \in {<<Reentering>>, <<Reentering, "ok">>, <<"raises", Reentering>>} :
        \/ ErrConstructed("live", hs, 0)
        \/ \E c \in 0..MaxCeiling : ErrConstructed("fix", hs, c)
    /\ ClassLoaded
    /\ ObservableConstructed(1)
    /\ FallbackConstructed("live", "custom", {})
    /\ GroupConstructed(1)
    /\ BatchConstructed

SpecRec ==
    /\ InitRec
    /\ [][NextRec]_vars
    /\ \A t \in Threads : WF_vars(ErrStep(t) \/ Handler_reenters(t))

\* A manager of either module to which handlers are added at any time.
InitReg ==
    /\ MgrConstructed("live")
    /\ LoggerConstructed({})
    /\ HandlerConstructed("none", {})
    /\ \E im \in {"live", "fix"}, hs \in {<<>>, <<"ok">>} : ErrConstructed(im, hs, MaxCeiling)
    /\ ClassLoaded
    /\ ObservableConstructed(1)
    /\ FallbackConstructed("live", "custom", {})
    /\ GroupConstructed(1)
    /\ BatchConstructed

SpecReg == InitReg /\ [][NextReg]_vars

\* Every thread inside a handle_error call keeps running.
SpecErr ==
    /\ InitErr
    /\ [][NextErr]_vars
    /\ \A t \in Threads : WF_vars(ErrStep(t))

\* The diagnostic scenario: an initialized manager (initialize(1) has
\* returned), threads calling update_config and get_logger over and over.
MgrInitialized(im) ==
    /\ impl = im
    /\ initialized = TRUE
    /\ root_logger = 1
    /\ loggers = [n \in Names |-> None]
    /\ config = 1
    /\ factory = 1
    /\ lockOwner = [l \in Locks |-> None]
    /\ lg = <<NewLogger(Root, 1)>>
    /\ cache = [t \in Threads |-> [n \in Names |-> None]]
    /\ pc = [t \in Threads |-> "idle"]
    /\ op = [t \in Threads |-> NoCall]
    /\ iter = [t \in Threads |-> <<>>]
    /\ tmp = [t \in Threads |-> None]
    /\ snap = [t \in Threads |-> NoSnap]
    /\ ret = [t \in Threads |-> [how |-> "none", v |-> None]]
    /\ calls = MaxCalls
    /\ bg = <<>>
    /\ hist = [rootBuilds |-> 1, initFlips |-> 1, shutdowns |-> 0,
               removed |-> {},
               sawPresent |-> [t \in Threads |-> None],
               tookLock |-> [t \in Threads |-> FALSE],
               atStart |-> [t \in Threads |-> {}],
               goneAtStart |-> [t \in Threads |-> {}]]

InitDiag ==
    /\ \E im \in {"live", "fix"} : MgrInitialized(im)
    /\ LoggerConstructed({})
    /\ HandlerConstructed("none", {})
    /\ ErrConstructed("live", <<>>, 0)
    /\ ClassLoaded
    /\ ObservableConstructed(1)
    /\ FallbackConstructed("live", "custom", {})
    /\ GroupConstructed(1)
    /\ BatchConstructed

\* The steps of client thread t in the diagnostic scenario.
DiagStep(t) ==
    \/ Begin(t, {"update_config", "get_logger"})
    \/ Live_get_logger_check(t)
    \/ Live_get_logger_root(t)
    \/ Live_get_logger_body(t)
    \/ Live_update_config_check(t)
    \/ Live_update_config_lock(t)
    \/ Live_update_config_root(t)
    \/ Live_update_config_loggers_lock(t)
    \/ Live_update_config_each(t)
    \/ Fix_get_logger_check(t)
    \/ Fix_get_logger_root(t)
    \/ Fix_get_logger_read(t)
    \/ Fix_get_logger_body(t)
    \/ Fix_get_logger_publish(t)
    \/ Fix_update_config_check(t)
    \/ Fix_update_config_set(t)
    \/ Fix_update_config_root(t)
    \/ Fix_update_config_spawn(t)

DiagBackground == \E i \in DOMAIN bg : Fix_update_loggers(i)

NextDiag ==
    \/ \E t \in Threads : DiagStep(t)
    \/ DiagBackground

\* The diagnostic scenario with loggers that re-enter the manager.
NextReenter ==
    \/ NextDiag
    \/ \E t \in Threads : Live_logger_reenters(t)

SpecReenter == InitDiag /\ [][NextReenter]_vars

\* Every thread that can take a step keeps being scheduled, and a thread
\* waiting for a lock that is released again and again gets it in the end.
SpecDiag ==
    /\ InitDiag
    /\ [][NextDiag]_vars
    /\ \A t \in Threads : SF_vars(DiagStep(t))
    /\ WF_vars(DiagBackground)

\* The handler with its threads scheduled: the worker, the flush thread and
\* the caller's pending stop() or flush() each get to run when they can.
WorkerStep ==
    \/ Worker_loop
    \/ Worker_get
    \/ Process_record("worker")
    \/ Process_output("worker")
    \/ Process_except("worker")

FlushStep ==
    \/ Flush_loop
    \/ Flush_wait
    \/ Flush_check
    \/ Flush_queue
    \/ Process_record("flush")
    \/ Process_output("flush")
    \/ Process_except("flush")

CallerStep ==
    \/ Stop_join_worker
    \/ Stop_join_flush
    \/ Flush_return

InitMeta ==
    /\ MgrConstructed("live")
    /\ LoggerConstructed({})
    /\ HandlerConstructed("none", {})
    /\ ErrConstructed("live", <<>>, 0)
    /\ ClassLoaded
    /\ ObservableConstructed(1)
    /\ FallbackConstructed("live", "custom", {})
    /\ GroupConstructed(1)
    /\ BatchConstructed

SpecMeta == InitMeta /\ [][NextMeta]_vars

\* One ObservableLogger built with any of the configs.
InitObservable ==
    /\ MgrConstructed("live")
    /\ LoggerConstructed({})
    /\ HandlerConstructed("none", {})
    /\ ErrConstructed("live", <<>>, 0)
    /\ ClassLoaded
    /\ \E c \in LogConfigs : ObservableConstructed(c)
    /\ FallbackConstructed("live", "custom", {})
    /\ GroupConstructed(1)
    /\ BatchConstructed

SpecObservable == InitObservable /\ [][NextObservable]_vars

\* One FallbackErrorHandler of either module, with a custom strategy or with
\* log_fallback, and any set of steps raising.
InitFallback ==
    /\ MgrConstructed("live")
    /\ LoggerConstructed({})
    /\ HandlerConstructed("none", {})
    /\ ErrConstructed("live", <<>>, 0)
    /\ ClassLoaded
    /\ ObservableConstructed(1)
    /\ \E im \in {"live", "fix"}, st \in {"custom", "log_fallback"},
          bad \in SUBSET FallbackSteps : FallbackConstructed(im, st, bad)
    /\ GroupConstructed(1)
    /\ BatchConstructed

SpecFallback == InitFallback /\ [][NextFallback]_vars

\* One manager initialized with any of the configs.
InitGroup ==
    /\ MgrConstructed("live")
    /\ LoggerConstructed({})
    /\ HandlerConstructed("none", {})
    /\ ErrConstructed("live", <<>>, 0)
    /\ ClassLoaded
    /\ ObservableConstructed(1)
    /\ FallbackConstructed("live", "custom", {})
    /\ \E c \in LogConfigs : GroupConstructed(c)
    /\ BatchConstructed

SpecGroup == InitGroup /\ [][NextGroup]_vars

\* One BatchProcessor.
InitBatch ==
    /\ MgrConstructed("live")
    /\ LoggerConstructed({})
    /\ HandlerConstructed("none", {})
    /\ ErrConstructed("live", <<>>, 0)
    /\ ClassLoaded
    /\ ObservableConstructed(1)
    /\ FallbackConstructed("live", "custom", {})
    /\ GroupConstructed(1)
    /\ BatchConstructed

SpecBatch == InitBatch /\ [][NextBatch]_vars

\* The consumers' steps: with a handler that returns, nothing _process_record
\* lets through reaches the loops' except clauses.
UpdateWorkerStep ==
    \/ Worker_loop
    \/ Worker_get
    \/ Process_record("worker")
    \/ Process_output("worker")

UpdateFlushStep ==
    \/ Flush_loop
    \/ Flush_wait
    \/ Flush_check
    \/ Flush_queue
    \/ Process_record("flush")
    \/ Process_output("flush")

\* One AsyncLogger: threads log() and one thread calls update_config.
NextUpdate ==
    \/ Enqueue
    \/ UpdateWorkerStep
    \/ UpdateFlushStep
    \/ Update_config_stop
    \/ \E x \in Pool : Update_config_join(x)
    \/ Update_config_new
    \/ Update_config_add

\* AsyncLogger.__init__ gives the handler self._handle_error, which returns.
InitUpdate ==
    /\ MgrConstructed("live")
    /\ LoggerConstructed({})
    /\ HandlerConstructed("silent", {})
    /\ ErrConstructed("live", <<>>, 0)
    /\ ClassLoaded
    /\ ObservableConstructed(1)
    /\ FallbackConstructed("live", "custom", {})
    /\ GroupConstructed(1)
    /\ BatchConstructed

UpdateStep ==
    \/ \E x \in Pool : Update_config_join(x)
    \/ Update_config_new
    \/ Update_config_add

SpecUpdate ==
    /\ InitUpdate
    /\ [][NextUpdate]_vars
    /\ WF_vars(UpdateWorkerStep)
    /\ WF_vars(UpdateFlushStep)
    /\ WF_vars(UpdateStep)

SpecHandlerFair ==
    /\ InitHandler
    /\ [][NextHandler]_vars
    /\ WF_vars(WorkerStep)
    /\ WF_vars(FlushStep)
    /\ WF_vars(CallerStep)


\* ================================================================== claims

\* Thread t is about to invoke a method of a Logger.
AtLoggerCall(t) ==
    \/ pc[t] \in {"uc_root", "sd_rootcall"} /\ root_logger # None
    \/ pc[t] = "rl_shut"
    \/ pc[t] \in {"uc_iter", "sd_iter"} /\ iter[t] # <<>>

\* C1: no LogManager operation holds a LogManager lock at the moment it
\* invokes a method of a Logger.
C1_NoLockHeldAtLoggerCall ==
    \A t \in Threads : AtLoggerCall(t) => Held(t) = {}

\* C2: with an initialized manager, threads calling update_config and
\* get_logger concurrently are never blocked forever: every call returns and
\* all calls get made.
C2_EveryCallReturns ==
    <>(calls = 0 /\ \A t \in Threads : pc[t] = "idle")

\* C2 witness: a get_logger call waits for _loggers_lock while an
\* update_config call of another thread holds it.
C2_Witness ==
    \E t, u \in Threads :
        /\ t # u
        /\ pc[t] = "gl_body" /\ op[u].kind = "update_config"
        /\ lockOwner["_loggers_lock"] = u

\* C3: threads racing to initialize an uninitialized manager build the root
\* logger once, flip the flag once, and each returns with that root logger
\* installed.
C3_InitializeOnce ==
    hist.shutdowns = 0 =>
        /\ hist.rootBuilds <= 1
        /\ hist.initFlips <= 1
        /\ \A t \in Threads :
            (op[t].kind = "initialize" /\ pc[t] = "idle") =>
                /\ ret[t].how = "ok"
                /\ initialized
                /\ root_logger # None
                /\ lg[root_logger].name = Root

\* C3 witness: one thread has initialized the manager while another, which
\* saw it uninitialized, waits for the initialization lock.
C3_Witness ==
    \E t, u \in Threads :
        /\ t # u /\ hist.shutdowns = 0
        /\ pc[t] = "init_lock"
        /\ op[u].kind = "initialize" /\ pc[u] = "idle" /\ initialized

\* C4: threads racing to get_logger the same new name create one Logger, and
\* every caller receives that instance for as long as the name is not removed.
C4_OneLoggerPerName ==
    \A n \in Names : n \notin hist.removed =>
        /\ Cardinality({i \in DOMAIN lg : lg[i].name = n}) <= 1
        /\ \A t \in Threads :
            (op[t].kind = "get_logger" /\ op[t].name = n /\ pc[t] = "idle"
                /\ ret[t].how = "ok") =>
                    (ret[t].v # None /\ ret[t].v = loggers[n])

\* C4 witness: a thread that found the name missing in its unlocked read is
\* about to enter the locked section after another thread created the logger.
C4_Witness ==
    \E t, u \in Threads :
        /\ t # u /\ impl = "fix"
        /\ op[t].kind = "get_logger" /\ op[u] = op[t]
        /\ op[t].name \notin hist.removed
        /\ pc[t] = "gl_body"
        /\ pc[u] = "idle" /\ ret[u].how = "ok" /\ ret[u].v = loggers[op[t].name]

\* C5: get_logger for a name that is in the published map (and stays there)
\* returns without acquiring _loggers_lock.
C5_LockFreeRead ==
    \A t \in Threads :
        (/\ op[t].kind = "get_logger"
         /\ hist.sawPresent[t] # None
         /\ op[t].name \in Names
         /\ loggers[op[t].name] = hist.sawPresent[t]) => ~hist.tookLock[t]

\* C6: racing first uses create one guard lock, and no two threads are inside
\* the guarded section at once.
C6_SingleGuardLock ==
    /\ Len(obsLocks) <= 1
    /\ Cardinality({t \in LThreads : lpc[t] \in {"test", "apply"}}) <= 1

\* Number of records a stalled consumer forces the queue to reject.
Overflow == IF ahist.attempts > QueueSize THEN ahist.attempts - QueueSize ELSE 0

\* C7: enqueue never raises, the queue never holds more than K
\* records, and with a stalled consumer exactly M drops are recorded.
C7_DropsRecorded ==
    /\ Len(queue) <= QueueSize
    /\ ahist.raised = 0
    /\ ahist.dequeued = 0 => ahist.reported = Overflow

\* C8: each strategy receives the producer's records in the order they were
\* enqueued.
C8_OutputInOrder ==
    \A s \in DOMAIN out : \A i, j \in DOMAIN out[s] :
        i < j => out[s][i] < out[s][j]

\* C9: when stop() returns, the queue is empty or a join ran into its
\* deadline, and no thread holds a record it has dequeued but not output.
C9_StopDrains ==
    [][(caller.pc = "join_flush" /\ caller'.pc = "idle") =>
          /\ queue' = <<>> \/ ahist'.timedOut
          /\ \A x \in Pool : thr'[x].rec = None]_vars

\* C10: once stop() has returned, an enqueue leaves the queue as it was and
\* does not raise, and a second stop() changes nothing.
C10_StoppedIsInert ==
    [][ahist.stops >= 1 =>
          /\ ahist'.attempts # ahist.attempts =>
                (queue' = queue /\ ahist'.raised = ahist.raised)
          /\ caller'.pc = "join_worker" =>
                (stop_event' = stop_event /\ queue' = queue /\ out' = out)]_vars

\* C11: every flush() call returns, whatever the queue does.
C11_FlushReturns ==
    (caller.pc = "flush_wait") ~> (caller.pc = "idle")

\* The records a thread took from the queue and is done with.
Processed == {r \in ahist.taken : \A x \in Pool : thr[x].rec # r}

\* C12: with a strategy that raises on every record, each dispatched record
\* still reaches every other strategy, and the failure is reported to the
\* error handler once per record.
C12_FaultIsolation ==
    \A r \in Processed :
        /\ \A s \in DOMAIN Strategies \ faulty : InSeq(r, out[s])
        /\ ahist.reports[r] = Cardinality(faulty)

\* C13: no thread holds _strategies_lock while it invokes a strategy.
C13_DispatchOutsideLock ==
    \A x \in Pool :
        (thr[x].pc = "out" /\ thr[x].todo # <<>>) => strategies_lock # x

\* C14: log() with a valid level returns normally, whatever strategies,
\* observers and handlers raise.
C14_LogNeverRaises ==
    lhist.raised = 0

\* The manager of error_handler_fix.py with one handler, which always raises.
SoleFailingHandler == eimpl = "fix" /\ handlers = <<"raises">>

\* Thread t's handle_error call has returned or raised.
ErrCallOver(t) == epc[t] = "idle" /\ eret[t] # "none"

C16_NeverPropagates ==
    \A t \in Threads : ErrCallOver(t) => eret[t] = "ok"

\* C16 witness: a call has returned although a registered handler raised.
C16_Witness ==
    \E t \in Threads :
        /\ ErrCallOver(t) /\ eret[t] = "ok"
        /\ handlers # <<>> /\ handlers[1] \in {"raises", "can_raises"}
        /\ error_count >= 1 /\ ewrites[t] >= 2

\* C17: when shutdown() returns on an initialized manager, the root logger and
\* every logger that was in the map have been shut down, the map is empty,
\* the root reference is cleared and the initialized flag is false.
C17_ShutdownResets ==
    [][\A t \in Threads :
        (pc[t] = "sd_flag" /\ pc'[t] = "idle") =>
            /\ ~initialized'
            /\ root_logger' = None
            /\ \A n \in Names : loggers'[n] = None
            /\ \A i \in hist.atStart[t] \ {None} : lg'[i].shut >= 1]_vars

\* C18: shutdown() is idempotent: over any number of shutdown calls, one
\* after another or overlapping, no Logger (the root included) has its
\* shutdown invoked more than once, and no shutdown call ends in an exception.
C18_ShutdownOnce ==
    /\ \A i \in DOMAIN lg : lg[i].shut <= 1
    /\ \A t \in Threads : op[t].kind = "shutdown" => ret[t].how \in {"none", "ok"}

\* C19: initialize(config', factory') on a manager that is already
\* initialized is a silent no-op: the step of the call that finds the flag set
\* (the first check, or the check under the initialization lock) returns
\* normally and leaves the stored config, the factory, the root Logger
\* reference, the logger map and the set of Logger objects as they were.
C19_ReinitializeNoOp ==
    [][\A t \in Threads :
        (/\ op[t].kind = "initialize"
         /\ pc[t] \in {"init_chk", "init_lock"}
         /\ initialized
         /\ pc'[t] # pc[t]) =>
            /\ pc'[t] = "idle" /\ ret'[t].how = "ok"
            /\ config' = config /\ factory' = factory
            /\ root_logger' = root_logger /\ loggers' = loggers
            /\ lg' = lg /\ initialized']_vars

\* An initialize call with other arguments has returned on a manager that
\* was initialized once and never shut down, and it was not that call that
\* initialized it.
C19_Witness ==
    \E t \in Threads :
        /\ op[t].kind = "initialize" /\ pc[t] = "idle" /\ ret[t].how = "ok"
        /\ initialized /\ hist.rootBuilds = 1 /\ hist.shutdowns = 0
        /\ factory # op[t].cfg /\ config # op[t].cfg

\* C20: however many threads evaluate LogManager() at the same time, the
\* body of the constructor runs at most once, at most one LogManager object
\* is ever created, and every call that has returned returned that object.
C20_Singleton ==
    /\ init_runs <= 1
    /\ objects <= 1
    /\ \A t \in CThreads : mpc[t] = "idle" /\ t \in sawNone => got[t] = 1
    /\ \A t, u \in CThreads : got[t] # None /\ got[u] # None => got[t] = got[u]

\* All the threads found no instance at their first test, and all of them
\* have returned.
C20_Witness ==
    /\ sawNone = CThreads
    /\ \A t \in CThreads : mpc[t] = "idle" /\ got[t] # None

\* C21: adding and removing a target is idempotent under any interleaving:
\* no observer is twice in the observer list, and no remove_observer reaches
\* list.remove() for an observer that is not in the list (which would raise
\* ValueError).
C21_TargetsIdempotent ==
    /\ \A i, j \in DOMAIN observers : observers[i] = observers[j] => i = j
    /\ \A t \in LThreads :
        (lpc[t] = "apply" /\ lop[t].kind = "remove_observer") =>
            InSeq(lop[t].o, observers)

\* C22: an object without a callable handle_error or can_handle is rejected
\* by add_handler, so the handler list never holds one and the loop of
\* handle_error never comes to invoke one.
C22_IncompleteRejected ==
    /\ \A i \in DOMAIN handlers : handlers[i] \notin IncompleteKinds
    /\ \A t \in Threads :
        (epc[t] = "each" /\ etodo[t] # <<>>) => Head(etodo[t]) \notin IncompleteKinds

\* C23: under any interleaving of concurrent handle_error calls on one
\* manager, between the locked blocks (each of them one step: the count-up
\* with its ceiling test, and the count-down) the depth counter is at least 0
\* and at most the ceiling.
C23_DepthInRange ==
    eimpl = "fix" =>
        (0 <= recursion_depth /\ recursion_depth <= max_recursion_depth)

\* Two calls are in flight at once and the counter stands at the ceiling.
C23_Witness ==
    /\ eimpl = "fix"
    /\ max_recursion_depth >= 1
    /\ recursion_depth = max_recursion_depth
    /\ \A t \in Threads : epc[t] \in {"count", "comp", "each", "fin"}

\* C24: when a registered handler calls handle_error of the same manager
\* from inside its own handle_error, every handle_error call that has started
\* comes to its end: no thread stays inside a call for ever (the manager
\* with the recursion ceiling, error_handler_fix.py).
C24_RecursionTerminates ==
    \A t \in Threads : (eimpl = "fix" /\ epc[t] # "idle") ~> (epc[t] = "idle")

\* The threads whose handle_error call has passed the depth test and has not
\* yet counted the depth down.
InFlight == {t \in Threads : epc[t] \in {"count", "comp", "each", "fin"}}

\* C25: the depth counter is shared by all threads: a top-level handle_error
\* call that starts while the counter stands at the ceiling (as many other
\* calls in flight as the ceiling allows) is cut short: it writes its two
\* lines to stderr, resets the counter and returns, its error is not counted
\* and no registered handler gets it.
C25_ConcurrentCallsCutOff ==
    [][\A t \in Threads :
        (/\ eimpl = "fix" /\ epc[t] = "enter" /\ epc'[t] # "enter"
         /\ recursion_depth >= max_recursion_depth) =>
            /\ epc'[t] = "idle" /\ eret'[t] = "ok"
            /\ ewrites'[t] = ewrites[t] + 2
            /\ error_count' = error_count
            /\ recursion_depth' = 0]_vars

\* With a working handler registered and a ceiling of one, a call was cut
\* short while the only other call was in flight: no nesting anywhere.
C25_Witness ==
    /\ eimpl = "fix" /\ handlers = <<"ok">>
    /\ max_recursion_depth = 1
    /\ \E t \in Threads :
        /\ epc[t] = "idle" /\ eret[t] = "ok" /\ ewrites[t] = 2
        /\ InFlight = Threads \ {t}
        /\ error_count = 1 /\ recursion_depth = 0

\* The lock thread t is about to take with a with-statement, if any.
AwaitedLock(t) ==
    CASE pc[t] \in {"gl_body"} -> "_loggers_lock"
      [] pc[t] \in {"uc_lock", "uc_set"} -> "_config_lock"
      [] OTHER -> "none"

\* C26: update_config ends also when a registered logger's update_config
\* re-enters the manager: the calling thread never comes to wait for a lock
\* it holds itself.
C26_NeverWaitsForOwnLock ==
    \A t \in Threads :
        AwaitedLock(t) # "none" => lockOwner[AwaitedLock(t)] # t

\* Thread t's get_logger call for a plain name is over.
GetLoggerOver(t) ==
    /\ op[t].kind = "get_logger" /\ op[t].name \in Names
    /\ pc[t] = "idle" /\ ret[t].how # "none"

\* C27: every map published by get_logger is the map published before it
\* plus the one new entry, and when get_logger calls for new names have
\* returned (no name is removed meanwhile), each call succeeded and its name
\* is in the map with the logger the call returned.
C27_NoLostCreation ==
    /\ [][\A t \in Threads :
            (impl = "fix" /\ pc[t] = "gl_pub" /\ pc'[t] = "idle") =>
                /\ loggers[op[t].name] = None
                /\ loggers' = [loggers EXCEPT ![op[t].name] = tmp[t]]]_vars
    /\ [](\A t \in Threads :
            (impl = "fix" /\ GetLoggerOver(t)) =>
                /\ ret[t].how = "ok"
                /\ loggers[op[t].name] = ret[t].v)

\* Both threads have created a logger, for different names, and both names
\* are in the map.
C27_Witness ==
    /\ impl = "fix"
    /\ \A t \in Threads : GetLoggerOver(t) /\ hist.tookLock[t]
    /\ op[1].name # op[2].name
    /\ \A t \in Threads : loggers[op[t].name] = ret[t].v /\ ret[t].v # None
    /\ Len(lg) = 3

\* C28: the initialized flag is never true while the root reference is null,
\* and a get_logger("root") call that passed the initialized check returns a
\* logger, not None, whatever initialize and shutdown calls run beside it.
C28_InitializedHasRoot ==
    /\ initialized => root_logger # None
    /\ \A t \in Threads :
        (/\ op[t].kind = "get_logger" /\ op[t].name = Root
         /\ pc[t] = "idle" /\ ret[t].how = "ok") => ret[t].v # None

\* C29: after update_config(c) has returned, every output strategy listed in
\* c is held by the logger and is open, also when c lists strategy objects
\* the logger held before the update.
C29_StrategiesOpenAfterUpdate ==
    last_call = "update_config" =>
        /\ strategies = output_strategies(logger_config)
        /\ Range(strategies) \cap closed = {}

\* C30: a get_logger call that starts after the remove_logger or shutdown
\* calls that shut a logger down have returned does not return that logger,
\* whether or not the calling thread had it in its thread-local cache.
C30_NoStaleLogger ==
    \A t \in Threads :
        (op[t].kind = "get_logger" /\ pc[t] = "idle" /\ ret[t].how = "ok") =>
            ret[t].v \notin hist.goneAtStart[t]

\* C31: once every update_config call and every background fan-out thread has
\* finished (no call of any kind is running), every logger in the map has the
\* manager's current config as its configuration.
C31_LoggersOnCurrentConfig ==
    (impl = "fix" /\ initialized /\ bg = <<>> /\ \A t \in Threads : pc[t] = "idle") =>
        \A n \in Names : loggers[n] # None => lg[loggers[n]].cfg = config

\* C32: an observer whose on_log_record calls add_observer or remove_observer
\* on the logger that is notifying it does not deadlock: the callback returns,
\* the notification completes and the log() call ends.
C32_CallbackCompletes ==
    \A t \in LThreads : (lframe[t] # NoFrame) ~> (lframe[t] = NoFrame /\ lpc[t] = "idle")

\* C33: every record whose enqueue succeeded is eventually output to every
\* output strategy, also when AsyncLogger.update_config replaces the handler
\* before or while the record is queued.
C33_UpdateKeepsRecords ==
    \A r \in 1..MaxRecords :
        InSeq(r, queue) ~> (\A i \in DOMAIN Strategies : InSeq(r, out[i]))

\* C34: when flush() returns, every record whose enqueue returned True before
\* flush() was called has been output on every registered strategy (none of
\* them faulty), also a record a consumer had dequeued but not finished.
C34_FlushCoversDequeued ==
    [][(caller.pc = "flush_wait" /\ caller'.pc = "idle" /\ faulty = {}) =>
          \A r \in ahist.atFlush : \A i \in DOMAIN Strategies : InSeq(r, out'[i])]_vars

\* C35: a dispatch delivers to the targets registered when it started: an
\* observer added while a record is being dispatched does not get that record,
\* and when the loop over the observers ends normally every observer that was
\* registered at the start has got it, once and in list order.
C35_DispatchUsesSnapshot ==
    [][\A t \in LThreads :
          /\ lop[t].kind = "log" => \A i \in DOMAIN lhist.notified[t] :
                 InSeq(lhist.notified[t][i], lhist.atDispatch[t])
          /\ (lpc[t] = "notify" /\ lpc'[t] = "output") =>
                 lhist.notified[t] = lhist.atDispatch[t]]_vars

\* C36: an exception raised while the worker thread processes a record, by a
\* strategy or by the error handler it is reported to, does not end the
\* worker: as long as stop() has not been called the worker is alive.
C36_WorkerSurvives ==
    ~stop_event => Alive("worker")

RECURSIVE ExpectedFrom(_, _)
\* What a whole pass over the handler list hs invokes, from position i on:
\* can_handle of each handler in list order, and handle_error right after a
\* can_handle that returned True.
ExpectedFrom(hs, i) ==
    IF i > Len(hs) THEN <<>>
    ELSE <<[h |-> i, call |-> "can_handle"]>> \o
         (IF hs[i] \in {"ok", "raises"} THEN <<[h |-> i, call |-> "handle_error"]>> ELSE <<>>) \o
         ExpectedFrom(hs, i + 1)

IsPrefix(p, q) == Len(p) <= Len(q) /\ SubSeq(q, 1, Len(p)) = p

ExpectedFallback ==
    <<"custom", "log_to_file">> \o
    (IF "log_to_file" \notin fraising THEN <<>>
     ELSE <<"print_to_stderr">> \o
          (IF "print_to_stderr" \notin fraising THEN <<>> ELSE <<"raw_stderr">>))

\* C38: when the fallback handler's custom strategy raises, the remaining
\* steps are attempted in the order log-to-file, print-to-stderr, raw stderr
\* write, each only if the one before raised, and the call returns normally.
C38_FallbackChain ==
    (fallback_strategy = "custom" /\ "custom" \in fraising /\ fpc = "idle" /\ fret # "none") =>
        (fret = "ok" /\ fsteps = ExpectedFallback)

\* C39: remove_logger(name) changes only the logger removed: the strategies of
\* every logger still registered, the root logger among them, stay open and
\* their log() records are still output.
C39_OthersKeepStrategies ==
    \A n \in registry :
        /\ Range(logger_strategies) \cap gclosed = {}
        /\ glost[n] = 0

\* The entries whose add_entry has appended them to the batch.
Appended == {e \in 1..badded : \A x \in Producers : ~(bpc[x] = "add_lock" /\ bentry[x] = e)}

\* C40: every entry passed to add_entry is handed to the processor in exactly
\* one batch: none reaches it twice, and an entry it has not got yet is still
\* in the batch or in the copy a thread is about to process.
C40_EachEntryOnce ==
    \A e \in Appended :
        /\ delivered[e] <= 1
        /\ \/ delivered[e] = 1
           \/ InSeq(e, batch)
           \/ \E x \in BatchThreads : bpc[x] \in {"pbn_clear", "pbn_proc"} /\ InSeq(e, blocal[x])

====
